---- MODULE Spec2Model ----
(***************************************************************************)
(* Model of the API supervisor of rpi_digital_signage                      *)
(* (scripts/watchdog.py, class APIWatchdog).                               *)
(*                                                                         *)
(* The supervisor is one Python thread.  Its program counter pc walks      *)
(* through start() and the functions it calls; the signal handler          *)
(* _handle_signal runs between two steps of that thread.  Times are in     *)
(* seconds of the monotonic clock.  The clock is read only on entry to     *)
(* _attempt_restart, and only to form the difference                       *)
(*   elapsed_since_restart = time.monotonic() - _last_restart_monotonic,   *)
(* so the model keeps that difference: it is None while                    *)
(* _last_restart_monotonic is None, it is set to 0 by the assignment       *)
(* _last_restart_monotonic = now_monotonic, and it grows with the clock.   *)
(* The time that passes between two reads of the clock is at least one     *)
(* check interval and is drawn from SleepDurations.                        *)
(*                                                                         *)
(* Fields that are written but never read for a decision                   *)
(* (_last_success_monotonic, _last_api_pid, _popen_pid) are left out.      *)
(*                                                                         *)
(* Specifications:                                                         *)
(*   Spec        the supervisor with signals and child exits               *)
(*   LiveSpec    the supervisor with no signal, main thread weakly fair    *)
(*   ClockSpec   two supervisor runs with the same observations and        *)
(*               different wall clocks                                     *)
(*   ReadySpec   the monitoring loop with the readiness check              *)
(*   ServiceSpec the PLC service of the API process                        *)
(*               (api/services/plc_service.py, class PLCService) with      *)
(*               concurrent caller threads and its executor                *)
(* Each specification leaves the variables of the others unchanged.        *)
(***************************************************************************)
EXTENDS Integers, Sequences, FiniteSets, TLC

\* ---------------------------------------------------------------- bounds
MaxElapsed == 1900

MaxFailures == 7

MaxOrphans == 1

\* latest monotonic time of the paired runs
MaxClock == 420

\* longest time since the last restart in the runs with readiness checks
MaxReadyElapsed == 400

\* threads calling the PLC service at the same time
MaxCallers == 2

\* work items the executor holds at a time, the running one included
MaxTasks == 2

\* largest RECONNECT_RETRY looked at (settings.py allows 0 to 10)
MaxRetry == 3

\* threads that call get_plc_client() at the same time
MaxThreads == 3

\* failed calls in a row up to which reset_failure_count is still called
MaxResetTrailing == 2

\* ------------------------------------------------------------- settings
\* WatchdogSettings defaults (config/settings.py)
CheckInterval == 10

FailureLimit == 3

InitialCooldown == 60

BackoffMax == 1800

\* startup grace values the model is run with: the default and the largest
\* value the settings accept
StartupGraceValues == {60, 180}

\* time that can pass from one monitoring cycle to the next: the check
\* interval itself, or longer (slow probe, restart pause, start-up polling,
\* a suspended host)
SleepDurations == {CheckInterval, 50, 240, 600, 900}

\* value of an unset Optional field
None == -1

\* Settings.PLC_FETCH_FAILURE_LIMIT (default)
PlcFetchFailureLimit == 5

\* ThreadPoolExecutor(max_workers=1)
ExecutorWorkers == 1

\* time from one monitoring cycle to the next in the paired runs
ClockSteps == {CheckInterval, 60, 300}

\* changes of a wall clock, and the differences from the monotonic clock
\* they lead to
WallJumps == {-3600, 3600}

\* WATCHDOG_READY_CHECK_INTERVAL: disabled, and the default
ReadyIntervalValues == {0, 60}

\* time from one monitoring cycle to the next in the runs with readiness
\* checks
ReadySleepDurations == {CheckInterval, 50}

WallSkews == {-3600, 0, 3600}

VARIABLES
    pc,                      \* position of the main thread
    running,                 \* self._running
    consecutive_failures,    \* self._consecutive_failures
    restart_count,           \* self._restart_count
    elapsed_since_restart,   \* time.monotonic() - self._last_restart_monotonic
    api_process,             \* self._api_process: "none", "live", "exited"
    orphans,                 \* live children no longer referenced
    http_client,             \* self._http_client: "none", "open"
    startup_grace,           \* self._startup_grace
    probe_outcome,           \* outcome of the probe being handled
    last_decision,           \* what the latest _attempt_restart decided
    trailing_failures,       \* history: failed probes since last success
    failed_ever,             \* history: some probe has failed
    signalled,               \* history: _handle_signal has run
    stop_call,               \* history: the _stop_api_server call just made
    bringup,                 \* history: "pending", "ok", "failed"
    exit_status              \* exit status of the process, None while alive

\* two supervisor runs side by side, fed the same probe outcomes at the
\* same monotonic times while their wall clocks differ
VARIABLES
    mono_clock,              \* time.monotonic(), the same in both runs
    wall_skew,               \* per run: time.time() - time.monotonic()
    runs                     \* per run: the fields of APIWatchdog

\* the readiness probe of the supervisor
VARIABLES
    ready_check_interval,    \* self._ready_check_interval
    since_ready_check,       \* time.monotonic() - _last_ready_check_monotonic
    ready_probe              \* history: what the latest readiness check did

\* the PLC service of the API process (api/services/plc_service.py)
VARIABLES
    svc_pc,                  \* per caller thread: position in its call
    access_lock,             \* self._access_lock: 0 free, else the holder
    plc_client,              \* self._client: "connected", "none"
    executor_shutdown,       \* self._executor has been shut down
    task_queue,              \* work items of self._executor, oldest first
    svc_failures,            \* self._consecutive_failures
    sigterms,                \* SIGTERMs the service has sent to its process
    svc_log,                 \* history: disconnect attempts and SIGTERMs
    svc_trailing,            \* history: non-successful calls since a success
    call_end,                \* history: the call that ended in the last step
    shutdown_pc,             \* position of shutdown() called by the API
    use_plc,                 \* self._use_plc
    shutdown_ret,            \* history: how the latest shutdown() returned
    ready_response           \* history: the latest response of GET /ready

\* the PLC client (backend/plc/plc_client.py)
VARIABLES
    cl_pc,                   \* position of the thread that uses the client
    connected,               \* self.connected
    cl_op,                   \* history: the call in progress or just ended
    reconnect_retry,         \* settings.RECONNECT_RETRY
    auto_reconnect,          \* settings.AUTO_RECONNECT
    reconnect_restart,       \* settings.RECONNECT_RESTART
    debug_dummy_read         \* settings.DEBUG_DUMMY_READ

\* the fetcher (backend/plc/plc_fetcher.py)
VARIABLES
    snapshot,                \* history: what fetch_production_data did last
    ts_result                \* history: what fetch_production_timestamp did

\* the singleton of the PLC client (PLCClient.get_instance)
VARIABLES
    cls_instance,            \* PLCClient._instance: 0 for None, else an id
    inst_pc,                 \* per thread: position in get_instance
    inst_new,                \* per thread: the instance it has constructed
    inst_returned,           \* per thread: what get_instance returned last
    inst_created             \* history: instances constructed so far

\* POST /api/restart (api/routes/system.py)
VARIABLES
    allow_frontend_restart,  \* _settings.ALLOW_FRONTEND_RESTART
    restart_response,        \* history: the latest answer of /api/restart
    restart_pc,              \* position of the request handler and its task
    api_log                  \* history: what the handler did, in order

wd_vars == <<pc, running, consecutive_failures, restart_count,
             elapsed_since_restart, api_process, orphans, http_client,
             startup_grace, probe_outcome, last_decision, trailing_failures,
             failed_ever, signalled, stop_call, bringup, exit_status>>

twin_vars == <<mono_clock, wall_skew, runs>>

ready_vars == <<ready_check_interval, since_ready_check, ready_probe>>

svc_vars == <<svc_pc, access_lock, plc_client, executor_shutdown,
              task_queue, svc_failures, sigterms, svc_log, svc_trailing,
              call_end, shutdown_pc, use_plc, shutdown_ret, ready_response>>

\* variables the steps of start() in scripts/watchdog.py never touch
client_vars == <<cl_pc, connected, cl_op, reconnect_retry, auto_reconnect,
                 reconnect_restart, debug_dummy_read>>

fetch_vars == <<snapshot, ts_result>>

single_vars == <<cls_instance, inst_pc, inst_new, inst_returned, inst_created>>

api_vars == <<allow_frontend_restart, restart_response, restart_pc, api_log>>

aux_vars == <<fetch_vars, single_vars, api_vars>>

other_vars == <<twin_vars, ready_vars, svc_vars, client_vars, aux_vars>>

vars == <<wd_vars, other_vars>>

\* ------------------------------------------------------------- helpers
Min(a, b) == IF a < b THEN a ELSE b

\* outcomes of client.get(health_url) followed by response.json()
ProbeOutcomes == {"ok", "bad_json", "non200", "request_error", "exception"}

\* outcomes that answer HTTP need a server process
HttpOutcomes == {"ok", "bad_json", "non200"}

LiveChildren == (IF api_process = "live" THEN 1 ELSE 0) + orphans

\* ---------------------------------------------------- _get_current_cooldown
backoff_stages(initial_cooldown) == <<initial_cooldown, 300, 900, 1800>>

\* variant: the stage index saturates one stage early
CooldownForEarlySaturation(count, initial_cooldown, backoff_max) ==
    LET stages == backoff_stages(initial_cooldown)
        stage == Min(count, Len(stages) - 2)
        cooldown == stages[stage + 1]
    IN  Min(cooldown, backoff_max)

CooldownFor(count, initial_cooldown, backoff_max) ==
    LET stages == backoff_stages(initial_cooldown)
        stage == Min(count, Len(stages) - 1)
        cooldown == stages[stage + 1]
    IN  Min(cooldown, backoff_max)

GetCurrentCooldown == CooldownFor(restart_count, InitialCooldown, BackoffMax)

\* ----------------------------------------------------------- _stop_api_server
\* Outcomes of stopping a live child: it exits on SIGTERM, it is killed
\* after the 5 s wait, it turns out to be gone (ProcessLookupError), or
\* another exception is caught and logged.
StopOutcomes == {"graceful", "killed", "gone", "error"}

\* the live child is still running after the call
StopLeavesChild(outcome) == outcome = "error"

\* number of live unreferenced children after _stop_api_server
OrphansAfterStop(outcome) ==
    IF api_process = "live" /\ StopLeavesChild(outcome)
    THEN orphans + 1 ELSE orphans

\* the call is possible with this outcome (the outcome only matters for a
\* live child; the finally clause always clears the reference)
StopPossible(outcome) ==
    IF api_process = "live"
    THEN StopLeavesChild(outcome) => orphans < MaxOrphans
    ELSE outcome = "graceful"

\* no _stop_api_server call was made in the step that led here
NoCall == [handle |-> "nocall", outcome |-> "nocall", signals |-> <<>>]

\* variant: a stuck child is killed without SIGTERM being sent first
StopSignalsKillOnly(outcome) ==
    CASE outcome = "graceful" -> {<<"SIGTERM">>}
      [] outcome = "killed" -> {<<"SIGKILL">>}
      [] outcome = "gone" -> {<<>>}
      [] outcome = "error" -> {<<>>, <<"SIGTERM">>}

\* signals delivered to the process group of a live child, in order:
\* os.killpg(pgid, SIGTERM), wait(timeout=5), on TimeoutExpired
\* os.killpg(pgid, SIGKILL).  ProcessLookupError from getpgid or from the
\* first killpg delivers nothing; another exception is raised before or
\* after the SIGTERM.
StopSignals(outcome) ==
    CASE outcome = "graceful" -> {<<"SIGTERM">>}
      [] outcome = "killed" -> {<<"SIGTERM", "SIGKILL">>}
      [] outcome = "gone" -> {<<>>}
      [] outcome = "error" -> {<<>>, <<"SIGTERM">>}

\* records of a _stop_api_server call made in the current state: a handle
\* that is None or has an exit code is dropped without any signal
StopCalls(outcome) ==
    IF api_process = "live"
    THEN {[handle |-> "live", outcome |-> outcome, signals |-> s] :
             s \in StopSignals(outcome)}
    ELSE {[handle |-> api_process, outcome |-> "noop", signals |-> <<>>]}

\* ------------------------------------------------------------ paired runs
Runs == {1, 2}

\* fields of a supervisor that has brought up its first child
FreshRun ==
    [consecutive_failures |-> 0, restart_count |-> 0,
     last_restart_monotonic |-> None, last_decision |-> "none"]

TwinInit ==
    /\ mono_clock = 0
    /\ wall_skew = [r \in Runs |-> 0]
    /\ runs = [r \in Runs |-> FreshRun]

\* -------------------------------------------------------------- PLCService
Callers == 1..MaxCallers

\* no call ended in the step that led here
NoEnd == [caller |-> 0, outcome |-> "none"]

\* no shutdown() has returned yet
NoShutdown ==
    [by |-> None, acquired |-> FALSE, waited |-> 0, lock_after |-> 0,
     client |-> "connected"]

\* GET /ready has not been answered yet
NoResponse ==
    [status |-> "none", thread_pool_ok |-> FALSE,
     plc_service_ready |-> FALSE, plc_alive |-> FALSE,
     worker_stuck |-> FALSE]

\* variant: a client is created whatever USE_PLC says
ClientAfterInitializeAlways(use) == "connected"

\* initialize(): "if self._use_plc: self._client = get_plc_client()",
\* otherwise self._client stays None
ClientAfterInitialize(use) == IF use THEN "connected" ELSE "none"

\* PLCService.__init__ and initialize() with USE_PLC set to use
SvcInitWith(use) ==
    /\ use_plc = use
    /\ plc_client = ClientAfterInitialize(use)
    /\ shutdown_ret = NoShutdown
    /\ ready_response = NoResponse

\* PLCService.__init__ and initialize() with USE_PLC on and a client
\* obtained
SvcInit ==
    /\ SvcInitWith(TRUE)
    /\ svc_pc = [t \in Callers |-> "idle"]
    /\ access_lock = 0
    /\ executor_shutdown = FALSE
    /\ task_queue = <<>>
    /\ svc_failures = 0
    /\ sigterms = 0
    /\ svc_log = <<>>
    /\ svc_trailing = 0
    /\ call_end = NoEnd
    /\ shutdown_pc = "idle"

\* ---------------------------------------------------------------- PLCClient
\* backend/plc/plc_client.py.  One thread uses the client: a call of
\* connect(), disconnect(), reconnect() or of a typed read (read_words,
\* read_bits, read_dwords) runs to its end before the next one starts.  The
\* loops of connect() and reconnect() take one step per iteration.

\* how self.plc.connect(ip, port) ends: connected, ConnectionRefusedError,
\* another ConnectionError / OSError / TimeoutError / socket.timeout, or
\* an exception of a class no except clause names
ConnectOutcomes == {"ok", "refused", "io_error", "other_error"}

\* how self.plc.close() ends: closed, ConnectionError / OSError, or an
\* exception of another class
CloseOutcomes == {"ok", "os_error", "other_error"}

\* no call has been made yet
NoOp ==
    [op |-> "none", by |-> "none", i |-> 0, attempts |-> 0,
     disconnects |-> 0, reads |-> 0, reconnects |-> 0, restarts |-> 0,
     last |-> "none", ret |-> "none", before |-> FALSE]

\* a call of method op begins; by is "read" when the auto_reconnect
\* wrapper makes the call
NewOp(op, by) ==
    [NoOp EXCEPT !.op = op, !.by = by, !.ret = "pending",
                 !.before = connected]

\* PLCClient as the other components find it: constructed, not connected
ClientDefaults ==
    /\ cl_pc = "idle"
    /\ connected = FALSE
    /\ cl_op = NoOp
    /\ reconnect_retry = MaxRetry
    /\ auto_reconnect = TRUE
    /\ reconnect_restart = FALSE
    /\ debug_dummy_read = FALSE

\* "for attempt in range(self.settings.RECONNECT_RETRY)" and
\* "for i in range(self.settings.RECONNECT_RETRY)": the variant runs the
\* body once more
LoopContinuesOnceMore(i, retry) == i <= retry

LoopContinues(i, retry) == i < retry

\* variant: connect() goes on to the next attempt after any caught error
ConnectRetriesAfterAnyError(outcome) == outcome \in {"refused", "io_error"}

\* connect(): only "except ConnectionRefusedError" sleeps and lets the
\* loop go on; "except (ConnectionError, OSError, TimeoutError)" returns
ConnectRetries(outcome) == outcome = "refused"

\* variant: the flag is cleared only when close() succeeded
ConnectedAfterDisconnectOnSuccess(conn, close) ==
    IF close = "ok" THEN FALSE ELSE conn

\* disconnect(): "finally: self.connected = False"
ConnectedAfterDisconnect(conn, close) == FALSE

\* disconnect(): True after close(), False after ConnectionError / OSError;
\* any other exception leaves the method
DisconnectReturn(close) ==
    CASE close = "ok" -> "true"
      [] close = "os_error" -> "false"
      [] OTHER -> "raised"

\* _ensure_connection() raises ConnectionError when the flag is down;
\* otherwise the batch read ends as outcome says
ReadAttempt(conn, outcome) == IF conn THEN outcome ELSE "io_error"

\* variant: the wrapper reconnects whatever AUTO_RECONNECT says
AfterFirstFailureAlwaysReconnect(auto) == "reconnecting"

\* auto_reconnect, wrapper: 'if getattr(self.settings, "AUTO_RECONNECT",
\* False)' leads to self.reconnect(), otherwise to the closing part
AfterFirstFailure(auto) == IF auto THEN "reconnecting" ELSE "failed"

\* auto_reconnect, wrapper, closing part: restart_system() is called when
\* RECONNECT_RESTART is set (the wrapped functions are the typed reads),
\* then the error is raised again
RestartsAfterFailure(restart) == IF restart THEN 1 ELSE 0

\* ------------------------------------------------- fetcher, singleton, API
\* fetch_production_data / fetch_production_timestamp have not been called
NoSnapshot ==
    [kind |-> "none", production_type |-> 0, production_name |-> "none",
     plan |-> 0, actual |-> 0, in_operating |-> FALSE, remain_min |-> 0,
     remain_pallet |-> 0, fully |-> 0, alarm |-> FALSE,
     timestamp |-> "none", raw_type |-> 0, raw_plan |-> 0,
     raw_actual |-> 0, tenths |-> 0, exc |-> "none"]

NoTimestamp ==
    [kind |-> "none", reads |-> 0, head_empty |-> FALSE, data |-> "none",
     Y |-> 0, M |-> 0, D |-> 0, h |-> 0, m |-> 0, s |-> 0]

Threads == 1..MaxThreads

\* the module has been imported: PLCClient._instance is None, no thread is
\* inside get_instance
SingletonDefaults ==
    /\ cls_instance = 0
    /\ inst_pc = [t \in Threads |-> "idle"]
    /\ inst_new = [t \in Threads |-> 0]
    /\ inst_returned = [t \in Threads |-> 0]
    /\ inst_created = 0

\* POST /api/restart has not been called
NoRestartResponse == [code |-> 0, status |-> "none"]

\* the fetcher and the singleton before their first call;
\* ALLOW_FRONTEND_RESTART: bool = False, no request for a restart yet
AuxDefaults ==
    /\ snapshot = NoSnapshot
    /\ ts_result = NoTimestamp
    /\ SingletonDefaults
    /\ allow_frontend_restart = FALSE
    /\ restart_response = NoRestartResponse
    /\ restart_pc = "idle"
    /\ api_log = <<>>

\* --------------------------------------------------------------------- main
\* main() returns when start() returns; nothing calls sys.exit, so the
\* interpreter ends with status 0
ExitStatusOfMain == 0

\* main.py, _run_watchdog_mode: "cleanup(); sys.exit(1)" inside the try
\* block when wait_for_api_ready returns False, then the finally clause
\* "cleanup(); sys.exit(0)".  A SystemExit raised in a finally clause
\* replaces the one that is propagating.
LauncherExitStatus(api_ready) ==
    LET raised_in_try == IF api_ready THEN None ELSE 1
        raised_in_finally == 0
    IN  IF raised_in_finally # None THEN raised_in_finally ELSE raised_in_try

\* ------------------------------------------------------------------ Init
Init ==
    /\ pc = "init_spawn"
    /\ running = TRUE
    /\ consecutive_failures = 0
    /\ restart_count = 0
    /\ elapsed_since_restart = None
    /\ api_process = "none"
    /\ orphans = 0
    /\ http_client = "none"
    /\ startup_grace \in StartupGraceValues
    /\ probe_outcome = "none"
    /\ last_decision = "none"
    /\ trailing_failures = 0
    /\ failed_ever = FALSE
    /\ signalled = FALSE
    /\ stop_call = NoCall
    /\ bringup = "pending"
    /\ exit_status = None
    /\ TwinInit
    /\ ready_check_interval = 60
    /\ since_ready_check = None
    /\ ready_probe = "notcalled"
    /\ SvcInit
    /\ ClientDefaults
    /\ AuxDefaults

\* --------------------------------------------------------- _start_api_server
\* subprocess.Popen(...): the child is created, or Popen raises and
\* _start_api_server returns False
Spawn(ok) ==
    /\ pc \in {"init_spawn", "rs_spawn"}
    /\ IF ok
       THEN /\ api_process' = "live"
            /\ orphans' = IF api_process = "live" THEN orphans + 1 ELSE orphans
            /\ orphans' <= MaxOrphans
            /\ pc' = IF pc = "init_spawn" THEN "init_wait" ELSE "rs_wait"
            /\ UNCHANGED <<running, bringup, exit_status>>
       ELSE /\ UNCHANGED <<api_process, orphans>>
            /\ IF pc = "init_spawn"
               THEN /\ pc' = "done"
                    /\ running' = FALSE
                    /\ bringup' = "failed"
                    /\ exit_status' = ExitStatusOfMain
               ELSE /\ pc' = "while"
                    /\ UNCHANGED <<running, bringup, exit_status>>
    /\ stop_call' = NoCall
    /\ UNCHANGED <<consecutive_failures, restart_count,
                   elapsed_since_restart, http_client, startup_grace,
                   probe_outcome, last_decision, trailing_failures,
                   failed_ever, signalled>>
    /\ UNCHANGED other_vars

\* _wait_for_api_ready and the rest of _start_api_server:
\*   "ready"   /health answered 200: the failure counter is zeroed
\*   "timeout" no 200 within the start-up timeout: the child is stopped
\*   "died"    poll() shows the child has exited: the reference is dropped
WaitReady(result, stop) ==
    /\ pc \in {"init_wait", "rs_wait"}
    /\ http_client' = "open"
    /\ \/ /\ result = "ready"
          /\ api_process = "live"
          /\ stop = "graceful"
          /\ consecutive_failures' = 0
          /\ pc' = "while"
          /\ bringup' = IF pc = "init_wait" THEN "ok" ELSE bringup
          /\ stop_call' = NoCall
          /\ UNCHANGED <<api_process, orphans, running, exit_status>>
       \/ /\ result \in {"timeout", "died"}
          /\ result = "died" <=> api_process = "exited"
          /\ StopPossible(stop)
          /\ stop_call' \in StopCalls(stop)
          /\ api_process' = "none"
          /\ orphans' = OrphansAfterStop(stop)
          /\ IF pc = "init_wait"
             THEN /\ pc' = "done"
                  /\ running' = FALSE
                  /\ bringup' = "failed"
                  /\ exit_status' = ExitStatusOfMain
             ELSE /\ pc' = "while"
                  /\ UNCHANGED <<running, bringup, exit_status>>
          /\ UNCHANGED consecutive_failures
    /\ UNCHANGED <<restart_count, elapsed_since_restart, startup_grace,
                   probe_outcome, last_decision, trailing_failures,
                   failed_ever, signalled>>
    /\ UNCHANGED other_vars

\* ---------------------------------------------------------------- start()
\* while self._running: ... ; after the loop the HTTP client is closed
WhileTest ==
    /\ pc = "while"
    /\ IF running
       THEN pc' = "sleeping" /\ UNCHANGED <<http_client, exit_status>>
       ELSE /\ pc' = "done"
            /\ http_client' = "none"
            /\ exit_status' = ExitStatusOfMain
    /\ probe_outcome' = "none"
    /\ last_decision' = "none"
    /\ stop_call' = NoCall
    /\ UNCHANGED <<running, consecutive_failures, restart_count,
                   elapsed_since_restart, api_process, orphans,
                   startup_grace, trailing_failures, failed_ever,
                   signalled, bringup>>
    /\ UNCHANGED other_vars

\* time.sleep(self._check_interval); if self._running: self._check_health()
Sleep(d) ==
    /\ pc = "sleeping"
    /\ IF elapsed_since_restart = None
       THEN UNCHANGED elapsed_since_restart
       ELSE /\ elapsed_since_restart + d <= MaxElapsed
            /\ elapsed_since_restart' = elapsed_since_restart + d
    /\ pc' = IF running THEN "check" ELSE "while"
    /\ stop_call' = NoCall
    /\ UNCHANGED <<running, consecutive_failures, restart_count,
                   api_process, orphans, http_client,
                   startup_grace, probe_outcome, last_decision,
                   trailing_failures, failed_ever, signalled, bringup,
                   exit_status>>
    /\ UNCHANGED other_vars

\* ------------------------------------------------------------ _check_health
\* self._consecutive_failures >= self._failure_limit
\* variant: the limit is reached one failure early
ReachedLimitEarly(failures) == failures >= FailureLimit - 1

ReachedLimit(failures) == failures >= FailureLimit

\* value of the failure counter when _handle_health_failure has counted
\* the probe.  A 200 response resets both counters before response.json()
\* is called, so a body that does not decode is counted from 0.
FailuresAfter(outcome) ==
    CASE outcome = "ok" -> 0
      [] outcome = "bad_json" -> 0 + 1
      [] OTHER -> consecutive_failures + 1

\* value of the restart counter after the probe
RestartCountAfter(outcome) ==
    IF outcome \in {"ok", "bad_json"} THEN 0 ELSE restart_count

\* _check_health with _handle_health_failure, up to the call of
\* _attempt_restart
CheckHealth(outcome) ==
    /\ pc = "check"
    /\ outcome \in HttpOutcomes => LiveChildren > 0
    /\ http_client' = "open"
    /\ probe_outcome' = outcome
    /\ consecutive_failures' = FailuresAfter(outcome)
    /\ restart_count' = RestartCountAfter(outcome)
    /\ IF outcome = "ok"
       THEN /\ trailing_failures' = 0
            /\ pc' = "while"
            /\ UNCHANGED failed_ever
       ELSE /\ trailing_failures < MaxFailures
            /\ trailing_failures' = trailing_failures + 1
            /\ failed_ever' = TRUE
            /\ pc' = IF ReachedLimit(consecutive_failures')
                     THEN "decide" ELSE "while"
    /\ stop_call' = NoCall
    /\ UNCHANGED <<running, elapsed_since_restart, api_process,
                   orphans, startup_grace, last_decision, signalled,
                   bringup, exit_status>>
    /\ UNCHANGED other_vars

\* ---------------------------------------------------------- _attempt_restart
\* elapsed_since_restart < self._startup_grace
\* variant: the grace period is not checked
GraceBlocksNever(elapsed) == FALSE

GraceBlocks(elapsed) == elapsed < startup_grace

\* elapsed_since_restart < cooldown
\* variant: the elapsed time is compared with the initial cooldown only
CooldownBlocksInitialOnly(elapsed, cooldown) == elapsed < InitialCooldown

CooldownBlocks(elapsed, cooldown) == elapsed < cooldown

\* variant: after the last backoff stage no further restart is made
RestartDecisionGivesUp ==
    LET cooldown == GetCurrentCooldown
    IN  IF elapsed_since_restart # None
        THEN IF GraceBlocks(elapsed_since_restart) THEN "grace"
             ELSE IF CooldownBlocks(elapsed_since_restart, cooldown)
                     \/ restart_count >= Len(backoff_stages(InitialCooldown)) - 1
                  THEN "cooldown"
                  ELSE "restart"
        ELSE "restart"

\* the decision taken on entry: "grace", "cooldown" or "restart"
RestartDecision ==
    LET cooldown == GetCurrentCooldown
    IN  IF elapsed_since_restart # None
        THEN IF GraceBlocks(elapsed_since_restart) THEN "grace"
             ELSE IF CooldownBlocks(elapsed_since_restart, cooldown)
                  THEN "cooldown"
                  ELSE "restart"
        ELSE "restart"

\* _attempt_restart down to _close_http_client(); a skipped decision
\* returns to the monitoring loop
AttemptRestart ==
    /\ pc = "decide"
    /\ last_decision' = RestartDecision
    /\ IF RestartDecision = "restart"
       THEN /\ elapsed_since_restart' = 0
            /\ restart_count' = restart_count + 1
            /\ http_client' = "none"
            /\ pc' = "rs_stop"
       ELSE /\ pc' = "while"
            /\ UNCHANGED <<elapsed_since_restart, restart_count,
                           http_client>>
    /\ probe_outcome' = "none"
    /\ stop_call' = NoCall
    /\ UNCHANGED <<running, consecutive_failures, api_process, orphans,
                   startup_grace, trailing_failures, failed_ever,
                   signalled, bringup, exit_status>>
    /\ UNCHANGED other_vars

\* self._stop_api_server() and time.sleep(2) of _attempt_restart
RestartStop(stop) ==
    /\ pc = "rs_stop"
    /\ StopPossible(stop)
    /\ stop_call' \in StopCalls(stop)
    /\ api_process' = "none"
    /\ orphans' = OrphansAfterStop(stop)
    /\ pc' = "rs_spawn"
    /\ UNCHANGED <<running, consecutive_failures, restart_count,
                   elapsed_since_restart, http_client, startup_grace,
                   probe_outcome, last_decision, trailing_failures,
                   failed_ever, signalled, bringup, exit_status>>
    /\ UNCHANGED other_vars

\* ------------------------------------------------------------ _handle_signal
\* SIGTERM or SIGINT delivered while the main thread is at pc
HandleSignal(stop) ==
    /\ pc # "done"
    /\ running' = FALSE
    /\ StopPossible(stop)
    /\ stop_call' \in StopCalls(stop)
    /\ api_process' = "none"
    /\ orphans' = OrphansAfterStop(stop)
    /\ http_client' = "none"
    /\ signalled' = TRUE
    /\ UNCHANGED <<pc, consecutive_failures, restart_count,
                   elapsed_since_restart, startup_grace, probe_outcome,
                   last_decision, trailing_failures, failed_ever, bringup,
                   exit_status>>
    /\ UNCHANGED other_vars

\* -------------------------------------------------------------- environment
\* the API child exits by itself (crash, or its own SIGTERM)
ChildExit ==
    /\ pc # "done"
    /\ api_process = "live"
    /\ api_process' = "exited"
    /\ stop_call' = NoCall
    /\ UNCHANGED <<pc, running, consecutive_failures, restart_count,
                   elapsed_since_restart, orphans, http_client,
                   startup_grace, probe_outcome, last_decision,
                   trailing_failures, failed_ever, signalled, bringup,
                   exit_status>>
    /\ UNCHANGED other_vars

\* a child the supervisor no longer references exits
OrphanExit ==
    /\ pc # "done"
    /\ orphans > 0
    /\ orphans' = orphans - 1
    /\ stop_call' = NoCall
    /\ UNCHANGED <<pc, running, consecutive_failures, restart_count,
                   elapsed_since_restart, api_process, http_client,
                   startup_grace, probe_outcome, last_decision,
                   trailing_failures, failed_ever, signalled, bringup,
                   exit_status>>
    /\ UNCHANGED other_vars

\* ------------------------------------------------------------ specification
Next ==
    \/ \E ok \in BOOLEAN : Spawn(ok)
    \/ \E result \in {"ready", "timeout", "died"}, stop \in StopOutcomes :
          WaitReady(result, stop)
    \/ WhileTest
    \/ \E d \in SleepDurations : Sleep(d)
    \/ \E outcome \in ProbeOutcomes : CheckHealth(outcome)
    \/ AttemptRestart
    \/ \E stop \in StopOutcomes : RestartStop(stop)
    \/ \E stop \in StopOutcomes : HandleSignal(stop)
    \/ ChildExit
    \/ OrphanExit

Spec == Init /\ [][Next]_vars

\* steps of the main thread: start() and everything it calls
MainThread ==
    \/ \E ok \in BOOLEAN : Spawn(ok)
    \/ \E result \in {"ready", "timeout", "died"}, stop \in StopOutcomes :
          WaitReady(result, stop)
    \/ WhileTest
    \/ \E d \in SleepDurations : Sleep(d)
    \/ \E outcome \in ProbeOutcomes : CheckHealth(outcome)
    \/ AttemptRestart
    \/ \E stop \in StopOutcomes : RestartStop(stop)

\* the supervisor with no signal delivered to it
LiveNext ==
    \/ MainThread
    \/ ChildExit
    \/ OrphanExit

\* the main thread is the only thread of the process and every call it
\* makes returns (sleep, HTTP timeouts of 5 s and 2 s, wait(timeout=5)),
\* so it keeps taking steps
LiveSpec == Init /\ [][LiveNext]_vars /\ WF_vars(MainThread)

\* ------------------------------------------------- paired runs, two clocks
\* now_monotonic = time.monotonic(): the reading the guards of
\* _attempt_restart are computed from
\* variant: the reading is taken from the wall clock, time.time()
NowWallClock(monotonic, wall) == wall

NowMonotonic(monotonic, wall) == monotonic

\* _check_health and _handle_health_failure on the fields of one run
RunAfterProbe(run, outcome) ==
    [run EXCEPT
       !.consecutive_failures =
           CASE outcome = "ok" -> 0
             [] outcome = "bad_json" -> 0 + 1
             [] OTHER -> run.consecutive_failures + 1,
       !.restart_count =
           IF outcome \in {"ok", "bad_json"} THEN 0 ELSE run.restart_count,
       !.last_decision = "none"]

\* the decision of _attempt_restart for one run, reading the clock at now
RunDecision(run, now) ==
    LET cooldown == CooldownFor(run.restart_count, InitialCooldown, BackoffMax)
        elapsed == now - run.last_restart_monotonic
    IN  IF run.last_restart_monotonic # None
        THEN IF GraceBlocks(elapsed) THEN "grace"
             ELSE IF CooldownBlocks(elapsed, cooldown) THEN "cooldown"
                  ELSE "restart"
        ELSE "restart"

\* _attempt_restart on the fields of one run; up tells whether the new
\* child answers /health during _start_api_server
RunAfterDecision(run, now, up) ==
    IF RunDecision(run, now) = "restart"
    THEN [run EXCEPT
            !.last_restart_monotonic = now,
            !.restart_count = run.restart_count + 1,
            !.consecutive_failures =
                IF up THEN 0 ELSE run.consecutive_failures,
            !.last_decision = "restart"]
    ELSE [run EXCEPT !.last_decision = RunDecision(run, now)]

\* one monitoring cycle of one run: the probe, and the restart decision
\* when the probe failed with the counter at the limit
RunAfterCycle(run, monotonic, wall, outcome, up) ==
    LET probed == RunAfterProbe(run, outcome)
    IN  IF outcome # "ok" /\ ReachedLimit(probed.consecutive_failures)
        THEN RunAfterDecision(probed, NowMonotonic(monotonic, wall), up)
        ELSE probed

\* d seconds later both runs make the same observation
TwinCycle(d, outcome, up) ==
    /\ mono_clock + d <= MaxClock
    /\ mono_clock' = mono_clock + d
    /\ runs' = [r \in Runs |->
                  RunAfterCycle(runs[r], mono_clock',
                                mono_clock' + wall_skew[r], outcome, up)]
    /\ \A r \in Runs : runs'[r].consecutive_failures <= MaxFailures
    /\ UNCHANGED wall_skew
    /\ UNCHANGED <<wd_vars, ready_vars, svc_vars, client_vars, aux_vars>>

\* the wall clock of one run is set forward or back (NTP, manual change)
WallClockJump(r, jump) ==
    /\ wall_skew[r] + jump \in WallSkews
    /\ wall_skew' = [wall_skew EXCEPT ![r] = wall_skew[r] + jump]
    /\ UNCHANGED <<mono_clock, runs>>
    /\ UNCHANGED <<wd_vars, ready_vars, svc_vars, client_vars, aux_vars>>

ClockNext ==
    \/ \E d \in ClockSteps, outcome \in ProbeOutcomes, up \in BOOLEAN :
          TwinCycle(d, outcome, up)
    \/ \E r \in Runs, jump \in WallJumps : WallClockJump(r, jump)

ClockSpec == Init /\ [][ClockNext]_vars

\* ------------------------------------------------ monitoring with /ready
\* The monitoring loop with the readiness check of the specification
\* (section 4.5, step 5) and of tests/scripts/test_watchdog.py: after the
\* /health probe of a cycle, _check_ready_if_due() probes /ready when the
\* check is enabled and due.  The restart (stop, pause, start) is one step
\* here.
ReadyOutcomes == {"ok", "degraded", "unhealthy", "non200", "exception"}

\* variant: a disabled check counts as always due
ReadyDueWhenDisabled(interval, since) ==
    since = None \/ since >= interval

\* interval > 0 and no check made yet or the interval has elapsed
ReadyDue(interval, since) ==
    /\ interval > 0
    /\ since = None \/ since >= interval

\* variant: a readiness probe that is not ok is counted like a failed
\* /health probe
CountersAfterReadyCounted(outcome) ==
    IF outcome = "ok"
    THEN <<consecutive_failures, restart_count>>
    ELSE <<consecutive_failures + 1, restart_count>>

\* consecutive_failures and restart_count after a readiness probe: the
\* outcome is logged only
CountersAfterReady(outcome) == <<consecutive_failures, restart_count>>

ReadyInit ==
    /\ pc = "sleeping"
    /\ running = TRUE
    /\ consecutive_failures = 0
    /\ restart_count = 0
    /\ elapsed_since_restart = None
    /\ api_process = "live"
    /\ orphans = 0
    /\ http_client = "open"
    /\ startup_grace \in StartupGraceValues
    /\ probe_outcome = "none"
    /\ last_decision = "none"
    /\ trailing_failures = 0
    /\ failed_ever = FALSE
    /\ signalled = FALSE
    /\ stop_call = NoCall
    /\ bringup = "ok"
    /\ exit_status = None
    /\ TwinInit
    /\ ready_check_interval \in ReadyIntervalValues
    /\ since_ready_check = None
    /\ ready_probe = "notcalled"
    /\ SvcInit
    /\ ClientDefaults
    /\ AuxDefaults

\* time.sleep(self._check_interval)
ReadySleep(d) ==
    /\ pc = "sleeping"
    /\ running
    /\ IF elapsed_since_restart = None
       THEN UNCHANGED elapsed_since_restart
       ELSE /\ elapsed_since_restart + d <= MaxReadyElapsed
            /\ elapsed_since_restart' = elapsed_since_restart + d
    /\ since_ready_check' =
          IF since_ready_check = None THEN None ELSE since_ready_check + d
    /\ pc' = "check"
    /\ last_decision' = "none"
    /\ ready_probe' = "notcalled"
    /\ UNCHANGED <<running, consecutive_failures, restart_count,
                   api_process, orphans, http_client, startup_grace,
                   probe_outcome, trailing_failures, failed_ever, signalled,
                   stop_call, bringup, exit_status, ready_check_interval>>
    /\ UNCHANGED <<twin_vars, svc_vars, client_vars, aux_vars>>

\* _check_health with _handle_health_failure
ReadyHealth(outcome) ==
    /\ pc = "check"
    /\ outcome \in HttpOutcomes => LiveChildren > 0
    /\ consecutive_failures' = FailuresAfter(outcome)
    /\ consecutive_failures' <= MaxFailures
    /\ restart_count' = RestartCountAfter(outcome)
    /\ pc' = IF outcome # "ok" /\ ReachedLimit(consecutive_failures')
             THEN "decide" ELSE "ready"
    /\ UNCHANGED <<running, elapsed_since_restart, api_process, orphans,
                   http_client, startup_grace, probe_outcome, last_decision,
                   trailing_failures, failed_ever, signalled, stop_call,
                   bringup, exit_status>>
    /\ UNCHANGED <<twin_vars, ready_vars, svc_vars, client_vars, aux_vars>>

\* _attempt_restart; up tells whether the new child answers /health
\* during _start_api_server
ReadyDecide(up) ==
    /\ pc = "decide"
    /\ last_decision' = RestartDecision
    /\ IF RestartDecision = "restart"
       THEN /\ elapsed_since_restart' = 0
            /\ restart_count' = restart_count + 1
            /\ api_process' = IF up THEN "live" ELSE "none"
            /\ consecutive_failures' =
                  IF up THEN 0 ELSE consecutive_failures
       ELSE UNCHANGED <<elapsed_since_restart, restart_count, api_process,
                        consecutive_failures>>
    /\ pc' = "ready"
    /\ UNCHANGED <<running, orphans, http_client, startup_grace,
                   probe_outcome, trailing_failures, failed_ever, signalled,
                   stop_call, bringup, exit_status>>
    /\ UNCHANGED <<twin_vars, ready_vars, svc_vars, client_vars, aux_vars>>

\* _check_ready_if_due
CheckReadyIfDue(outcome) ==
    /\ pc = "ready"
    /\ IF ReadyDue(ready_check_interval, since_ready_check)
       THEN /\ outcome \in {"ok", "degraded", "unhealthy", "non200"} =>
                  LiveChildren > 0
            /\ since_ready_check' = 0
            /\ ready_probe' = outcome
            /\ consecutive_failures' = CountersAfterReady(outcome)[1]
            /\ restart_count' = CountersAfterReady(outcome)[2]
       ELSE /\ outcome = "ok"
            /\ ready_probe' = "skipped"
            /\ UNCHANGED <<since_ready_check, consecutive_failures,
                           restart_count>>
    /\ pc' = "sleeping"
    /\ UNCHANGED <<running, elapsed_since_restart, api_process, orphans,
                   http_client, startup_grace, probe_outcome, last_decision,
                   trailing_failures, failed_ever, signalled, stop_call,
                   bringup, exit_status, ready_check_interval>>
    /\ UNCHANGED <<twin_vars, svc_vars, client_vars, aux_vars>>

ReadyNext ==
    \/ \E d \in ReadySleepDurations : ReadySleep(d)
    \/ \E outcome \in ProbeOutcomes : ReadyHealth(outcome)
    \/ \E up \in BOOLEAN : ReadyDecide(up)
    \/ \E outcome \in ReadyOutcomes : CheckReadyIfDue(outcome)

ReadySpec == ReadyInit /\ [][ReadyNext]_vars

\* -------------------------------------------------------------- PLCService
\* Each caller thread runs get_production_data or get_plc_timestamp.  A
\* work item of the executor is [caller, awaited]: awaited is TRUE while
\* the caller is blocked in future.result(timeout).  The executor runs the
\* oldest ExecutorWorkers items; the others wait in its queue.

\* variant: a second worker thread picks up the next item
RunningTasksTwoWorkers(q) == 1..Min(ExecutorWorkers + 1, Len(q))

\* positions in task_queue of the items a worker thread is executing
RunningTasks(q) == 1..Min(ExecutorWorkers, Len(q))

RemoveAt(q, i) == SubSeq(q, 1, i - 1) \o SubSeq(q, i + 1, Len(q))

\* executor.shutdown(wait=False, cancel_futures=True): items not yet
\* started are cancelled, running ones go on
CancelQueued(q) == SubSeq(q, 1, Min(ExecutorWorkers, Len(q)))

\* the caller stops waiting for its item; the item stays where it is
Abandon(q, t) ==
    [i \in DOMAIN q |->
        IF q[i].caller = t THEN [q[i] EXCEPT !.awaited = FALSE] ELSE q[i]]

AwaitedBy(q, t) ==
    \E i \in DOMAIN q : q[i].caller = t /\ q[i].awaited

\* how a typed read of the client ends once its decorators are through:
\* with data, with the I/O error that auto_reconnect re-raises
\* (ConnectionError, OSError, TimeoutError, socket.timeout), or with an
\* exception of another class
ReadOutcomes == {"value", "io_error", "other_error"}

\* _fetch_word, _fetch_bit, fetch_alarm_msg, fetch_production_timestamp:
\* "except (ConnectionError, OSError, ValueError, IndexError)" logs a
\* warning and returns the default of the field
FetchValue(read) ==
    CASE read = "value" -> "value"
      [] read = "io_error" -> "default"
      [] OTHER -> "raised"

\* fetch_production_data and fetch_production_timestamp return to the
\* executor unless a read raised past the helpers
FetchReturns(read) == FetchValue(read) # "raised"

\* variant: a timeout is not counted
SvcFailuresAfterNoTimeout(failures, outcome) ==
    CASE outcome = "result" -> 0
      [] outcome = "PLCCommunicationTimeoutError" -> failures
      [] OTHER -> failures + 1

\* _execute_with_timeout: self._consecutive_failures = 0 on a result,
\* _handle_failure's += 1 on FuturesTimeoutError and on any Exception
SvcFailuresAfter(failures, outcome) ==
    CASE outcome = "result" -> 0
      [] OTHER -> failures + 1

\* variant: the completion of an abandoned call resets the counter
FailuresAfterLateCompletionReset(failures) == 0

\* an item nobody waits for completes: its result or exception is stored
\* in a future no one reads
FailuresAfterLateCompletion(failures) == failures

\* shutdown(): self._access_lock.acquire(timeout=5.0)
ShutdownLockTimeout == 5

\* threading.Lock is not reentrant: acquire(timeout) returns True when the
\* lock is free and False, after the timeout, while a thread holds it, the
\* calling thread included
Acquired(lock) == lock = 0

\* variant: the client reference is cleared only under the lock
ClientAfterShutdownLockedOnly(client, acquired) ==
    IF acquired THEN "none" ELSE client

\* shutdown(): "finally: self._client = None" when there is a client, and
\* "self._client = None" again when the lock was not acquired
ClientAfterShutdown(client, acquired) == "none"

\* shutdown() called by thread caller (0: the thread that ends the API)
\* while the access lock is lock: "if acquired: self._access_lock.release()"
ShutdownReturn(caller, lock, client) ==
    [by |-> caller,
     acquired |-> Acquired(lock),
     waited |-> IF Acquired(lock) THEN 0 ELSE ShutdownLockTimeout,
     lock_after |-> lock,
     client |-> ClientAfterShutdown(client, Acquired(lock))]

\* shutdown() called by _terminate_process from thread t, then
\* os.kill(os.getpid(), SIGTERM).  Thread t is inside "with
\* self._access_lock" of its call, so the lock is held by t: the executor
\* is shut down, the lock wait times out, the client is disconnected and
\* the reference cleared
Terminated(t, q) ==
    [queue |-> CancelQueued(q),
     client |-> ShutdownReturn(t, t, plc_client).client,
     shut |-> TRUE,
     log |-> svc_log \o <<"disconnect_attempt", "SIGTERM">>,
     sigterms |-> sigterms + 1,
     ret |-> ShutdownReturn(t, t, plc_client)]

\* _handle_failure after the counter has been incremented to failures
HandleFailure(t, failures, q) ==
    IF failures >= PlcFetchFailureLimit
    THEN Terminated(t, q)
    ELSE [queue |-> q, client |-> plc_client, shut |-> executor_shutdown,
          log |-> svc_log, sigterms |-> sigterms, ret |-> shutdown_ret]

\* the call of thread t ends with an exception: the except clauses of
\* _execute_with_timeout, then the lock is released by the with statement
EndWithFailure(t, outcome, q) ==
    LET failures == SvcFailuresAfter(svc_failures, outcome)
        after == HandleFailure(t, failures, q)
    IN  /\ svc_failures' = failures
        /\ svc_trailing' = svc_trailing + 1
        /\ task_queue' = after.queue
        /\ plc_client' = after.client
        /\ executor_shutdown' = after.shut
        /\ svc_log' = after.log
        /\ sigterms' = after.sigterms
        /\ shutdown_ret' = after.ret
        /\ svc_pc' = [svc_pc EXCEPT ![t] = "idle"]
        /\ access_lock' = 0
        /\ call_end' = [caller |-> t, outcome |-> outcome]
        /\ UNCHANGED shutdown_pc

\* self._executor.submit(func, ...) under the access lock: RuntimeError
\* once the executor has been shut down
Dispatch(t) ==
    IF executor_shutdown
    THEN EndWithFailure(t, "error", task_queue)
    ELSE /\ Len(task_queue) < MaxTasks
         /\ task_queue' =
               Append(task_queue, [caller |-> t, awaited |-> TRUE])
         /\ access_lock' = t
         /\ svc_pc' = [svc_pc EXCEPT ![t] = "waiting"]
         /\ call_end' = NoEnd
         /\ UNCHANGED <<plc_client, executor_shutdown, svc_failures,
                        sigterms, svc_log, svc_trailing, shutdown_pc,
                        shutdown_ret>>

\* get_production_data: the lock is taken, then
\* "if self._use_plc and self._client is not None" chooses between the
\* PLC and _generate_dummy_data()
GetProductionData(t) ==
    /\ svc_pc[t] = "idle"
    /\ access_lock = 0
    /\ IF use_plc /\ plc_client # "none"
       THEN Dispatch(t)
       ELSE /\ call_end' = [caller |-> t, outcome |-> "dummy"]
            /\ UNCHANGED <<svc_pc, access_lock, plc_client,
                           executor_shutdown, task_queue, svc_failures,
                           sigterms, svc_log, svc_trailing, shutdown_pc,
                           shutdown_ret>>
    /\ UNCHANGED <<wd_vars, twin_vars, ready_vars, client_vars, aux_vars,
                   use_plc, ready_response>>

\* get_plc_timestamp: "if not self._use_plc or self._client is None:
\* return None", looked at before the lock is taken
TimestampCheck(t) ==
    /\ svc_pc[t] = "idle"
    /\ IF ~use_plc \/ plc_client = "none"
       THEN /\ call_end' = [caller |-> t, outcome |-> "none_returned"]
            /\ UNCHANGED svc_pc
       ELSE /\ call_end' = NoEnd
            /\ svc_pc' = [svc_pc EXCEPT ![t] = "ts_checked"]
    /\ UNCHANGED <<access_lock, plc_client, executor_shutdown, task_queue,
                   svc_failures, sigterms, svc_log, svc_trailing,
                   shutdown_pc, shutdown_ret>>
    /\ UNCHANGED <<wd_vars, twin_vars, ready_vars, client_vars, aux_vars,
                   use_plc, ready_response>>

\* get_plc_timestamp: with self._access_lock, _execute_with_timeout
TimestampDispatch(t) ==
    /\ svc_pc[t] = "ts_checked"
    /\ access_lock = 0
    /\ Dispatch(t)
    /\ UNCHANGED <<wd_vars, twin_vars, ready_vars, client_vars, aux_vars,
                   use_plc, ready_response>>

\* a running item ends; read is how the typed reads it made ended.  The
\* fetcher returns (with data or with defaults) or raises: the waiting
\* caller gets the result or the exception; an abandoned item ends
\* unnoticed
TaskCompletes(i, read) ==
    /\ i \in RunningTasks(task_queue)
    /\ LET task == task_queue[i]
           rest == RemoveAt(task_queue, i)
       IN  IF task.awaited
           THEN IF FetchReturns(read)
                THEN /\ svc_failures' = SvcFailuresAfter(svc_failures, "result")
                     /\ svc_trailing' = 0
                     /\ task_queue' = rest
                     /\ svc_pc' = [svc_pc EXCEPT ![task.caller] = "idle"]
                     /\ access_lock' = 0
                     /\ call_end' = [caller |-> task.caller,
                                     outcome |-> "result"]
                     /\ UNCHANGED <<plc_client, executor_shutdown, sigterms,
                                    svc_log, shutdown_pc, shutdown_ret>>
                ELSE EndWithFailure(task.caller, "error", rest)
           ELSE /\ task_queue' = rest
                /\ svc_failures' = FailuresAfterLateCompletion(svc_failures)
                /\ call_end' = [caller |-> 0, outcome |-> "late"]
                /\ UNCHANGED <<svc_pc, access_lock, plc_client,
                               executor_shutdown, sigterms, svc_log,
                               svc_trailing, shutdown_pc, shutdown_ret>>
    /\ UNCHANGED <<wd_vars, twin_vars, ready_vars, client_vars, aux_vars,
                   use_plc, ready_response>>

\* future.result(timeout=self._fetch_timeout) raises FuturesTimeoutError:
\* the item is neither cancelled nor removed
FetchTimeout(t) ==
    /\ svc_pc[t] = "waiting"
    /\ AwaitedBy(task_queue, t)
    /\ EndWithFailure(t, "PLCCommunicationTimeoutError",
                      Abandon(task_queue, t))
    /\ UNCHANGED <<wd_vars, twin_vars, ready_vars, client_vars, aux_vars,
                   use_plc, ready_response>>

\* future.result raises CancelledError: the item was cancelled by a
\* shutdown of the executor before a worker picked it up
FutureCancelled(t) ==
    /\ svc_pc[t] = "waiting"
    /\ ~AwaitedBy(task_queue, t)
    /\ EndWithFailure(t, "error", task_queue)
    /\ UNCHANGED <<wd_vars, twin_vars, ready_vars, client_vars, aux_vars,
                   use_plc, ready_response>>

\* shutdown() called by the API on its way down:
\* self._executor.shutdown(wait=False, cancel_futures=True)
ShutdownExecutor ==
    /\ shutdown_pc = "idle"
    /\ shutdown_pc' = "locking"
    /\ executor_shutdown' = TRUE
    /\ task_queue' = CancelQueued(task_queue)
    /\ call_end' = NoEnd
    /\ UNCHANGED <<svc_pc, access_lock, plc_client, svc_failures, sigterms,
                   svc_log, svc_trailing, shutdown_ret>>
    /\ UNCHANGED <<wd_vars, twin_vars, ready_vars, client_vars, aux_vars,
                   use_plc, ready_response>>

\* the rest of shutdown(): the lock is acquired, or the wait of 5 s times
\* out while a caller holds it; either way the client block runs, the
\* reference is cleared, and the lock is released if it was acquired
ShutdownClient ==
    /\ shutdown_pc = "locking"
    /\ shutdown_pc' = "done"
    /\ shutdown_ret' = ShutdownReturn(0, access_lock, plc_client)
    /\ plc_client' = shutdown_ret'.client
    /\ svc_log' = svc_log \o <<"disconnect_attempt">>
    /\ call_end' = NoEnd
    /\ UNCHANGED <<svc_pc, access_lock, executor_shutdown, task_queue,
                   svc_failures, sigterms, svc_trailing>>
    /\ UNCHANGED <<wd_vars, twin_vars, ready_vars, client_vars, aux_vars,
                   use_plc, ready_response>>

\* ------------------------------------------------------------ GET /ready
\* the worker of self._executor is occupied by a call whose caller has
\* given up waiting for it
WorkerStuck(q) == q # <<>> /\ ~q[1].awaited

\* readiness_check: "with ThreadPoolExecutor(max_workers=1) as executor"
\* creates a pool of its own for the request, submits _ping to it and
\* waits 1 s; done says whether that pool ran _ping in time.  The executor
\* of the PLC service, whose items are q, is not involved.
ThreadPoolOk(done, q) == done

\* ping_plc of the PLC service: a 1-word read that shares the access lock
\* and the executor and is bounded by PLC_PING_TIMEOUT, so it fails while
\* the worker is occupied for good; otherwise read_ok says how it went
PingPlc(q, read_ok) == IF WorkerStuck(q) THEN FALSE ELSE read_ok

\* variant: the state of the thread pool is left out of the verdict
ReadinessStatusIgnoringPool(thread_pool_ok, plc_ready, plc_alive) ==
    IF plc_ready /\ plc_alive THEN "ok"
    ELSE IF plc_ready THEN "degraded"
    ELSE "unhealthy"

\* readiness_check: the if / elif / else that sets status
ReadinessStatus(thread_pool_ok, plc_ready, plc_alive) ==
    IF thread_pool_ok /\ plc_ready /\ plc_alive THEN "ok"
    ELSE IF thread_pool_ok /\ plc_ready THEN "degraded"
    ELSE "unhealthy"

\* GET /ready: done is the outcome of the pool ping, plc_ready what
\* plc_service.is_ready() returns, read_ok how the read of ping_plc goes
ReadinessCheck(done, plc_ready, read_ok) ==
    /\ LET thread_pool_ok == ThreadPoolOk(done, task_queue)
           plc_alive == PingPlc(task_queue, read_ok)
       IN  ready_response' =
               [status |-> ReadinessStatus(thread_pool_ok, plc_ready,
                                           plc_alive),
                thread_pool_ok |-> thread_pool_ok,
                plc_service_ready |-> plc_ready,
                plc_alive |-> plc_alive,
                worker_stuck |-> WorkerStuck(task_queue)]
    /\ call_end' = NoEnd
    /\ UNCHANGED <<svc_pc, access_lock, plc_client, executor_shutdown,
                   task_queue, svc_failures, sigterms, svc_log,
                   svc_trailing, shutdown_pc, use_plc, shutdown_ret>>
    /\ UNCHANGED <<wd_vars, twin_vars, ready_vars, client_vars, aux_vars>>

ServiceNext ==
    \/ \E t \in Callers : GetProductionData(t)
    \/ \E t \in Callers : TimestampCheck(t)
    \/ \E t \in Callers : TimestampDispatch(t)
    \/ \E i \in 1..MaxTasks, read \in ReadOutcomes : TaskCompletes(i, read)
    \/ \E t \in Callers : FetchTimeout(t)
    \/ \E t \in Callers : FutureCancelled(t)
    \/ ShutdownExecutor
    \/ ShutdownClient
    \/ \E done \in BOOLEAN, plc_ready \in BOOLEAN, read_ok \in BOOLEAN :
          ReadinessCheck(done, plc_ready, read_ok)

\* the API process with USE_PLC on or off; the supervisor is not looked at
ServiceStart ==
    /\ pc = "init_spawn"
    /\ running = TRUE
    /\ consecutive_failures = 0
    /\ restart_count = 0
    /\ elapsed_since_restart = None
    /\ api_process = "none"
    /\ orphans = 0
    /\ http_client = "none"
    /\ startup_grace = 60
    /\ probe_outcome = "none"
    /\ last_decision = "none"
    /\ trailing_failures = 0
    /\ failed_ever = FALSE
    /\ signalled = FALSE
    /\ stop_call = NoCall
    /\ bringup = "pending"
    /\ exit_status = None
    /\ TwinInit
    /\ ready_check_interval = 60
    /\ since_ready_check = None
    /\ ready_probe = "notcalled"
    /\ \E use \in BOOLEAN : SvcInitWith(use)
    /\ svc_pc = [t \in Callers |-> "idle"]
    /\ access_lock = 0
    /\ executor_shutdown = FALSE
    /\ task_queue = <<>>
    /\ svc_failures = 0
    /\ sigterms = 0
    /\ svc_log = <<>>
    /\ svc_trailing = 0
    /\ call_end = NoEnd
    /\ shutdown_pc = "idle"
    /\ ClientDefaults

ServiceInit == ServiceStart /\ AuxDefaults

ServiceSpec == ServiceInit /\ [][ServiceNext]_vars

\* connect() is called
StartConnect ==
    /\ cl_pc = "idle"
    /\ cl_pc' = "connecting"
    /\ cl_op' = NewOp("connect", "direct")
    /\ UNCHANGED <<connected, reconnect_retry, auto_reconnect,
                   reconnect_restart, debug_dummy_read>>
    /\ UNCHANGED <<wd_vars, twin_vars, ready_vars, svc_vars, aux_vars>>

\* connect(): the loop test and one pass of the body, outcome being how
\* plc.connect ends
ConnectStep(outcome) ==
    /\ cl_pc = "connecting"
    /\ IF ~LoopContinues(cl_op.i, reconnect_retry)
       THEN /\ connected' = FALSE
            /\ cl_op' = [cl_op EXCEPT !.ret = "false"]
            /\ cl_pc' = "idle"
       ELSE LET tried == [cl_op EXCEPT !.attempts = @ + 1,
                                       !.last = outcome]
            IN  CASE outcome = "ok" ->
                       /\ connected' = TRUE
                       /\ cl_op' = [tried EXCEPT !.ret = "true"]
                       /\ cl_pc' = "idle"
                  [] outcome = "other_error" ->
                       /\ cl_op' = [tried EXCEPT !.ret = "raised"]
                       /\ cl_pc' = "idle"
                       /\ UNCHANGED connected
                  [] OTHER ->
                       IF ConnectRetries(outcome)
                          /\ cl_op.i < reconnect_retry - 1
                       THEN /\ cl_op' = [tried EXCEPT !.i = @ + 1]
                            /\ cl_pc' = "connecting"
                            /\ UNCHANGED connected
                       ELSE /\ connected' = FALSE
                            /\ cl_op' = [tried EXCEPT !.ret = "false"]
                            /\ cl_pc' = "idle"
    /\ UNCHANGED <<reconnect_retry, auto_reconnect, reconnect_restart,
                   debug_dummy_read>>
    /\ UNCHANGED <<wd_vars, twin_vars, ready_vars, svc_vars, aux_vars>>

\* disconnect() called on its own
Disconnect(close) ==
    /\ cl_pc = "idle"
    /\ connected' = ConnectedAfterDisconnect(connected, close)
    /\ cl_op' = [NewOp("disconnect", "direct") EXCEPT
                    !.disconnects = 1, !.last = close,
                    !.ret = DisconnectReturn(close)]
    /\ UNCHANGED <<cl_pc, reconnect_retry, auto_reconnect,
                   reconnect_restart, debug_dummy_read>>
    /\ UNCHANGED <<wd_vars, twin_vars, ready_vars, svc_vars, aux_vars>>

\* reconnect() called on its own
StartReconnect ==
    /\ cl_pc = "idle"
    /\ cl_pc' = "reconnecting"
    /\ cl_op' = [NewOp("reconnect", "direct") EXCEPT !.reconnects = 1]
    /\ UNCHANGED <<connected, reconnect_retry, auto_reconnect,
                   reconnect_restart, debug_dummy_read>>
    /\ UNCHANGED <<wd_vars, twin_vars, ready_vars, svc_vars, aux_vars>>

\* reconnect(): the loop test and one pass of the body: disconnect(), then
\* plc.connect.  When the wrapper of a typed read made the call, a return
\* of True leads to the second call of the read, a return of False to the
\* closing part of the wrapper, and an exception leaves the wrapper.
ReconnectStep(close, outcome) ==
    /\ cl_pc = "reconnecting"
    /\ IF ~LoopContinues(cl_op.i, reconnect_retry)
       THEN /\ connected' = FALSE
            /\ IF cl_op.by = "read"
               THEN cl_op' = [cl_op EXCEPT
                        !.restarts = RestartsAfterFailure(reconnect_restart),
                        !.ret = "io_error"]
               ELSE cl_op' = [cl_op EXCEPT !.ret = "false"]
            /\ cl_pc' = "idle"
       ELSE LET closed == [cl_op EXCEPT !.disconnects = @ + 1]
                tried == [closed EXCEPT !.attempts = @ + 1,
                                        !.last = outcome]
            IN  IF DisconnectReturn(close) = "raised"
                THEN /\ connected' = ConnectedAfterDisconnect(connected,
                                                              close)
                     /\ cl_op' = [closed EXCEPT !.last = close,
                                                !.ret = "raised"]
                     /\ cl_pc' = "idle"
                ELSE CASE outcome = "ok" ->
                            /\ connected' = TRUE
                            /\ IF cl_op.by = "read"
                               THEN /\ cl_op' = tried
                                    /\ cl_pc' = "retry_read"
                               ELSE /\ cl_op' = [tried EXCEPT !.ret = "true"]
                                    /\ cl_pc' = "idle"
                       [] outcome = "other_error" ->
                            /\ connected' =
                                  ConnectedAfterDisconnect(connected, close)
                            /\ cl_op' = [tried EXCEPT !.ret = "raised"]
                            /\ cl_pc' = "idle"
                       [] OTHER ->
                            /\ connected' = FALSE
                            /\ cl_op' = [tried EXCEPT !.i = @ + 1]
                            /\ cl_pc' = "reconnecting"
    /\ UNCHANGED <<reconnect_retry, auto_reconnect, reconnect_restart,
                   debug_dummy_read>>
    /\ UNCHANGED <<wd_vars, twin_vars, ready_vars, svc_vars, aux_vars>>

\* a typed read is called: debug_dummy_read, then the wrapper of
\* auto_reconnect makes the first call of the read
Read(outcome) ==
    /\ cl_pc = "idle"
    /\ IF debug_dummy_read
       THEN /\ cl_op' = [NewOp("read", "read") EXCEPT !.ret = "dummy"]
            /\ cl_pc' = "idle"
       ELSE LET first == ReadAttempt(connected, outcome)
                op == [NewOp("read", "read") EXCEPT !.reads = 1,
                                                    !.last = first]
            IN  CASE first = "value" ->
                       /\ cl_op' = [op EXCEPT !.ret = "value"]
                       /\ cl_pc' = "idle"
                  [] first = "other_error" ->
                       /\ cl_op' = [op EXCEPT !.ret = "other_error"]
                       /\ cl_pc' = "idle"
                  [] OTHER ->
                       IF AfterFirstFailure(auto_reconnect) = "reconnecting"
                       THEN /\ cl_op' = [op EXCEPT !.reconnects = 1]
                            /\ cl_pc' = "reconnecting"
                       ELSE /\ cl_op' = [op EXCEPT
                                   !.restarts =
                                       RestartsAfterFailure(reconnect_restart),
                                   !.ret = "io_error"]
                            /\ cl_pc' = "idle"
    /\ UNCHANGED <<connected, reconnect_retry, auto_reconnect,
                   reconnect_restart, debug_dummy_read>>
    /\ UNCHANGED <<wd_vars, twin_vars, ready_vars, svc_vars, aux_vars>>

\* auto_reconnect, wrapper: "if self.reconnect(): return func(self, ...)".
\* The second call returns, or its exception leaves the except clause at
\* once: the lines after it are not executed.
ReadRetry(outcome) ==
    /\ cl_pc = "retry_read"
    /\ LET second == ReadAttempt(connected, outcome)
       IN  cl_op' = [cl_op EXCEPT !.reads = @ + 1, !.last = second,
                                  !.ret = second]
    /\ cl_pc' = "idle"
    /\ UNCHANGED <<connected, reconnect_retry, auto_reconnect,
                   reconnect_restart, debug_dummy_read>>
    /\ UNCHANGED <<wd_vars, twin_vars, ready_vars, svc_vars, aux_vars>>

ClientNext ==
    \/ StartConnect
    \/ \E outcome \in ConnectOutcomes : ConnectStep(outcome)
    \/ \E close \in CloseOutcomes : Disconnect(close)
    \/ StartReconnect
    \/ \E close \in CloseOutcomes, outcome \in ConnectOutcomes :
          ReconnectStep(close, outcome)
    \/ \E outcome \in ReadOutcomes : Read(outcome)
    \/ \E outcome \in ReadOutcomes : ReadRetry(outcome)

\* the client under every setting of RECONNECT_RETRY, AUTO_RECONNECT,
\* RECONNECT_RESTART and DEBUG_DUMMY_READ; the other components rest
ClientInit ==
    /\ pc = "init_spawn"
    /\ running = TRUE
    /\ consecutive_failures = 0
    /\ restart_count = 0
    /\ elapsed_since_restart = None
    /\ api_process = "none"
    /\ orphans = 0
    /\ http_client = "none"
    /\ startup_grace = 60
    /\ probe_outcome = "none"
    /\ last_decision = "none"
    /\ trailing_failures = 0
    /\ failed_ever = FALSE
    /\ signalled = FALSE
    /\ stop_call = NoCall
    /\ bringup = "pending"
    /\ exit_status = None
    /\ TwinInit
    /\ ready_check_interval = 60
    /\ since_ready_check = None
    /\ ready_probe = "notcalled"
    /\ SvcInit
    /\ cl_pc = "idle"
    /\ connected = FALSE
    /\ cl_op = NoOp
    /\ reconnect_retry \in 0..MaxRetry
    /\ auto_reconnect \in BOOLEAN
    /\ reconnect_restart \in BOOLEAN
    /\ debug_dummy_read \in BOOLEAN
    /\ AuxDefaults

ClientSpec == ClientInit /\ [][ClientNext]_vars

\* ------------------------------------------------------------------ fetcher
\* backend/plc/plc_fetcher.py, backend/calculators.py, schemas/production.py

\* seconds_per_product of the configured types, in tenths of a second
\* (1.2 s and 60 s)
SecondsPerProductTenths == {12, 600}

\* fully of the configured types
Fully == 2800

\* outcomes of a read of the production type device
WordReads ==
    [st : {"value"}, w : {-1, 0, 1, 15, 16}]
        \cup [st : {"io_error", "other_error"}, w : {0}]

\* outcomes of a read of two 16-bit words as batchread_wordunits may hand
\* them over: small values, the largest unsigned word, and a negative
\* (signed) word
DwordReads ==
    [st : {"value"}, lo : {0, 1, 50, 65535, -1},
     hi : {0, 1, 50, 65535, -1}]
        \cup [st : {"io_error", "other_error"}, lo : {0}, hi : {0}]

\* outcomes of a read of one bit

BitReads ==
    [st : {"value"}, b : BOOLEAN] \cup [st : {"io_error"}, b : {FALSE}]

\* read_dwords: int.from_bytes(lo bytes + hi bytes, "little", signed=True)
DwordOf(lo, hi) ==
    IF hi >= 32768 THEN (hi - 65536) * 65536 + lo ELSE hi * 65536 + lo

\* read_dwords(device, size=1)[0], or the exception that leaves it:
\* word.to_bytes(2, byteorder="little") raises OverflowError for a word
\* outside 0..65535
ReadDwords(read) ==
    IF read.st # "value" THEN [st |-> read.st, v |-> 0]
    ELSE IF read.lo \notin 0..65535 \/ read.hi \notin 0..65535
         THEN [st |-> "other_error", v |-> 0]
         ELSE [st |-> "value", v |-> DwordOf(read.lo, read.hi)]

\* _fetch_word / _fetch_bit: the value, the default after a caught error,
\* or an exception the except clause does not name
FetchWord(res, default) ==
    CASE res.st = "value" -> [st |-> "value", v |-> res.v]
      [] res.st = "io_error" -> [st |-> "value", v |-> default]
      [] OTHER -> [st |-> "raised", v |-> default]

\* variant: the value of _fetch_word is passed on as it is
ClampCountUnclamped(val) == val

\* fetch_plan / fetch_actual: "return max(0, val)"
ClampCount(val) == IF val < 0 THEN 0 ELSE val

\* fetch_production_data: "if production_type < 0 or production_type > 15:
\* production_type = 0"
ClampType(production_type) ==
    IF production_type < 0 \/ production_type > 15 THEN 0
    ELSE production_type

\* round(n / d) for d > 0, ties to the even neighbour
RoundDiv(n, d) ==
    LET q == n \div d
        r == n % d
    IN  IF 2 * r < d THEN q
        ELSE IF 2 * r > d THEN q + 1
        ELSE IF q % 2 = 0 THEN q ELSE q + 1

\* calculate_remain_minutes: round((plan - actual) * seconds_per_product
\* / 60.0, 2), in hundredths of a minute
RemainMinutesHundredths(plan, actual, tenths) ==
    RoundDiv((plan - actual) * tenths, 6)

\* fetch_production_data: remain_min = math.ceil(_remain_min)
RemainMin(plan, actual, tenths) ==
    -((-RemainMinutesHundredths(plan, actual, tenths)) \div 100)

\* calculate_remain_pallet: round(max(0, plan - actual) / fully, 2), in
\* hundredths
RemainPalletHundredths(plan, actual, fully) ==
    RoundDiv((IF plan < actual THEN 0 ELSE plan - actual) * 100, fully)

\* ProductionData: Field(ge=0) on plan, actual, remain_min, remain_pallet
\* and fully; a violation raises ValidationError
Validates(plan, actual, remain_min, remain_pallet, fully) ==
    /\ plan >= 0
    /\ actual >= 0
    /\ remain_min >= 0
    /\ remain_pallet >= 0
    /\ fully >= 0

\* digit k (0 the lowest) of the four hexadecimal digits of f"{word:04x}"
Nibble(word, k) ==
    CASE k = 0 -> word % 16
      [] k = 1 -> (word \div 16) % 16
      [] k = 2 -> (word \div 256) % 16
      [] OTHER -> (word \div 4096) % 16

\* int() accepts the two characters: both are decimal digits.  A negative
\* word is formatted with a sign and a word above 0xffff with more than
\* four digits; the fields cut from such a string are no valid date
IsBcd(word) ==
    /\ word \in 0..65535
    /\ \A k \in 0..3 : Nibble(word, k) <= 9

\* int() of the two characters of the digits k + 1 and k
Pair(word, k) == 10 * Nibble(word, k + 1) + Nibble(word, k)

\* datetime(Y, M, D, h, m, s) is accepted (Y is 2000 to 2099)
ValidDate(Y, M, D, h, m, s) ==
    /\ M \in 1..12
    /\ D >= 1
    /\ D <= CASE M \in {4, 6, 9, 11} -> 30
              [] M = 2 -> IF Y % 4 = 0 THEN 29 ELSE 28
              [] OTHER -> 31
    /\ h \in 0..23
    /\ m \in 0..59
    /\ s \in 0..59

\* the three words of the clock as read_words(head_device, size=3) hands
\* them over: a date, a hexadecimal digit, month 13, hour 25, a negative
\* word, second 61
ClockReads ==
    [st : {"value"},
     data : {<<9489, 4884, 12357>>, <<9643, 4884, 12357>>,
             <<9491, 4884, 12357>>, <<9489, 4901, 12357>>,
             <<-1, 4884, 12357>>, <<9489, 4884, 12385>>, <<9489, 4884>>}]
        \cup [st : {"io_error", "other_error"}, data : {<<>>}]

\* fetch_production_timestamp(client, head_device):
\* 'if head_device == "": raise ValueError' stands before the try block
FetchProductionTimestamp(head_empty, read) ==
    LET d == read.data
        decoded ==
            [NoTimestamp EXCEPT
                !.Y = 2000 + Pair(d[1], 2), !.M = Pair(d[1], 0),
                !.D = Pair(d[2], 2), !.h = Pair(d[2], 0),
                !.m = Pair(d[3], 2), !.s = Pair(d[3], 0)]
        base == [NoTimestamp EXCEPT !.head_empty = head_empty]
    IN  IF head_empty
        THEN [base EXCEPT !.kind = "raised"]
        ELSE CASE read.st = "io_error" ->
                    [base EXCEPT !.kind = "system_time", !.reads = 1,
                                 !.data = "io_error"]
               [] read.st = "other_error" ->
                    [base EXCEPT !.kind = "raised", !.reads = 1,
                                 !.data = "other_error"]
               [] Len(d) < 3 ->
                    [base EXCEPT !.kind = "system_time", !.reads = 1,
                                 !.data = "short"]
               [] ~(IsBcd(d[1]) /\ IsBcd(d[2]) /\ IsBcd(d[3])) ->
                    [base EXCEPT !.kind = "system_time", !.reads = 1,
                                 !.data = "non_bcd"]
               [] ~ValidDate(decoded.Y, decoded.M, decoded.D, decoded.h,
                             decoded.m, decoded.s) ->
                    [base EXCEPT !.kind = "system_time", !.reads = 1,
                                 !.data = "no_date"]
               [] OTHER ->
                    [decoded EXCEPT !.kind = "plc_time", !.reads = 1,
                                    !.data = "bcd",
                                    !.head_empty = head_empty]

\* fetch_production_data(client): configured says whether
\* get_config_data finds an entry for the production type in the
\* configuration of the line, tenths is seconds_per_product of that entry
FetchSnapshot(reads, configured, tenths, head_empty, clock_read) ==
    LET type_res == FetchWord([st |-> reads.type.st, v |-> reads.type.w], 0)
        production_type == ClampType(type_res.v)
        plan_res == FetchWord(ReadDwords(reads.plan), 0)
        actual_res == FetchWord(ReadDwords(reads.actual), 0)
        plan == ClampCount(plan_res.v)
        actual == ClampCount(actual_res.v)
        remain_min == RemainMin(plan, actual, tenths)
        remain_pallet == RemainPalletHundredths(plan, actual, Fully)
        clock == FetchProductionTimestamp(head_empty, clock_read)
        seen == [NoSnapshot EXCEPT
                    !.production_type = production_type,
                    !.plan = plan, !.actual = actual,
                    !.in_operating = reads.operating.b,
                    !.raw_type = type_res.v, !.raw_plan = plan_res.v,
                    !.raw_actual = actual_res.v, !.tenths = tenths]
    IN  CASE type_res.st = "raised" ->
                [NoSnapshot EXCEPT !.kind = "raised", !.exc = "read"]
          [] plan_res.st = "raised" \/ actual_res.st = "raised" ->
                [NoSnapshot EXCEPT !.kind = "raised", !.exc = "read",
                                   !.production_type = production_type,
                                   !.raw_type = type_res.v]
          [] ~configured ->
                IF Validates(plan, actual, 0, 0, 1)
                THEN [seen EXCEPT !.kind = "error",
                                  !.production_name = "UNKNOWN",
                                  !.fully = 1, !.alarm = TRUE,
                                  !.timestamp = "system_time"]
                ELSE [seen EXCEPT !.kind = "raised",
                                  !.exc = "ValidationError"]
          [] clock.kind = "raised" ->
                [seen EXCEPT !.kind = "raised", !.exc = "timestamp"]
          [] ~Validates(plan, actual, remain_min, remain_pallet, Fully) ->
                [seen EXCEPT !.kind = "raised", !.exc = "ValidationError",
                             !.remain_min = remain_min,
                             !.remain_pallet = remain_pallet]
          [] OTHER ->
                [seen EXCEPT !.kind = "normal",
                             !.production_name = "configured",
                             !.remain_min = remain_min,
                             !.remain_pallet = remain_pallet,
                             !.fully = Fully, !.alarm = reads.alarm.b,
                             !.timestamp = clock.kind]

\* no call of the fetcher is under way
FetchIdle == snapshot = NoSnapshot /\ ts_result = NoTimestamp

\* one call of fetch_production_data; reads holds the outcomes of the
\* reads of the five devices
FetchProductionData(reads, configured, tenths, head_empty, clock_read) ==
    /\ FetchIdle
    /\ snapshot' = FetchSnapshot(reads, configured, tenths, head_empty,
                                 clock_read)
    /\ UNCHANGED ts_result
    /\ UNCHANGED <<wd_vars, twin_vars, ready_vars, svc_vars, client_vars,
                   single_vars, api_vars>>

\* one call of fetch_production_timestamp on its own
FetchTimestamp(head_empty, read) ==
    /\ FetchIdle
    /\ ts_result' = FetchProductionTimestamp(head_empty, read)
    /\ UNCHANGED snapshot
    /\ UNCHANGED <<wd_vars, twin_vars, ready_vars, svc_vars, client_vars,
                   single_vars, api_vars>>

\* the caller has taken the result; the next call can be made
FetchDone ==
    /\ snapshot # NoSnapshot \/ ts_result # NoTimestamp
    /\ snapshot' = NoSnapshot
    /\ ts_result' = NoTimestamp
    /\ UNCHANGED <<wd_vars, twin_vars, ready_vars, svc_vars, client_vars,
                   single_vars, api_vars>>

FetchNext ==
    \/ /\ FetchIdle
       /\ \E reads \in [type : WordReads, plan : DwordReads,
                        actual : DwordReads, operating : BitReads,
                        alarm : BitReads],
             configured \in BOOLEAN,
             tenths \in SecondsPerProductTenths, head_empty \in BOOLEAN,
             clock_read \in {r \in ClockReads :
                                r.st = "io_error"
                                \/ r.data = <<9489, 4884, 12357>>} :
             FetchProductionData(reads, configured, tenths, head_empty,
                                 clock_read)
    \/ /\ FetchIdle
       /\ \E head_empty \in BOOLEAN, read \in ClockReads :
             FetchTimestamp(head_empty, read)
    \/ FetchDone

FetchSpec == Init /\ [][FetchNext]_vars

\* ---------------------------------------------------------------- singleton
\* backend/plc/plc_client.py: PLCClient.get_instance, get_plc_client.  The
\* classmethod takes no lock; its steps are the read of cls._instance, the
\* construction cls(settings) (which connects, a blocking call), the store
\* into cls._instance and the read for the return

\* thread t enters get_instance and evaluates "cls._instance is None"
GetInstanceCheck(t) ==
    /\ inst_pc[t] = "idle"
    /\ inst_pc' = [inst_pc EXCEPT
                      ![t] = IF cls_instance = 0 THEN "construct"
                             ELSE "return"]
    /\ UNCHANGED <<cls_instance, inst_new, inst_returned, inst_created>>
    /\ UNCHANGED <<wd_vars, twin_vars, ready_vars, svc_vars, client_vars,
                   fetch_vars, api_vars>>

\* cls(settings): __init__ makes a Type3E object and connects it
GetInstanceConstruct(t) ==
    /\ inst_pc[t] = "construct"
    /\ inst_created' = inst_created + 1
    /\ inst_new' = [inst_new EXCEPT ![t] = inst_created + 1]
    /\ inst_pc' = [inst_pc EXCEPT ![t] = "assign"]
    /\ UNCHANGED <<cls_instance, inst_returned>>
    /\ UNCHANGED <<wd_vars, twin_vars, ready_vars, svc_vars, client_vars,
                   fetch_vars, api_vars>>

\* "cls._instance = ..." with the object just made
GetInstanceAssign(t) ==
    /\ inst_pc[t] = "assign"
    /\ cls_instance' = inst_new[t]
    /\ inst_pc' = [inst_pc EXCEPT ![t] = "return"]
    /\ UNCHANGED <<inst_new, inst_returned, inst_created>>
    /\ UNCHANGED <<wd_vars, twin_vars, ready_vars, svc_vars, client_vars,
                   fetch_vars, api_vars>>

\* "return cls._instance"
GetInstanceReturn(t) ==
    /\ inst_pc[t] = "return"
    /\ inst_returned' = [inst_returned EXCEPT ![t] = cls_instance]
    /\ inst_pc' = [inst_pc EXCEPT ![t] = "idle"]
    /\ UNCHANGED <<cls_instance, inst_new, inst_created>>
    /\ UNCHANGED <<wd_vars, twin_vars, ready_vars, svc_vars, client_vars,
                   fetch_vars, api_vars>>

SingletonNext ==
    \E t \in Threads :
        \/ GetInstanceCheck(t)
        \/ GetInstanceConstruct(t)
        \/ GetInstanceAssign(t)
        \/ GetInstanceReturn(t)

SingletonSpec == Init /\ [][SingletonNext]_vars

\* ------------------------------------------------------- POST /api/restart
\* api/routes/system.py: restart_server, and the two methods of the PLC
\* service that touch the failure counter outside a call

\* variant: the request is served whatever the setting says
RestartAllowedAlways(allow) == TRUE

\* restart_server: "if not _settings.ALLOW_FRONTEND_RESTART: raise
\* HTTPException(status_code=403, ...)"
RestartAllowed(allow) == allow

\* the handler of POST /api/restart, from the request to the response:
\* denied with 403, or plc_service.shutdown(), then
\* asyncio.create_task(delayed_restart()), then the RestartResponse
RestartServer ==
    /\ restart_pc = "idle"
    /\ IF ~RestartAllowed(allow_frontend_restart)
       THEN /\ restart_response' = [code |-> 403, status |-> "none"]
            /\ restart_pc' = "done"
            /\ UNCHANGED <<api_log, svc_pc, access_lock, plc_client,
                           executor_shutdown, task_queue, svc_failures,
                           sigterms, svc_log, svc_trailing, call_end,
                           shutdown_pc, shutdown_ret>>
       ELSE /\ executor_shutdown' = TRUE
            /\ task_queue' = CancelQueued(task_queue)
            /\ shutdown_ret' = ShutdownReturn(0, access_lock, plc_client)
            /\ plc_client' = shutdown_ret'.client
            /\ svc_log' = svc_log \o <<"disconnect_attempt">>
            /\ shutdown_pc' = "done"
            /\ call_end' = NoEnd
            /\ api_log' = api_log \o <<"shutdown", "create_task">>
            /\ restart_response' = [code |-> 200, status |-> "restarting"]
            /\ restart_pc' = "scheduled"
            /\ UNCHANGED <<svc_pc, access_lock, svc_failures, sigterms,
                           svc_trailing>>
    /\ UNCHANGED <<allow_frontend_restart, use_plc, ready_response>>
    /\ UNCHANGED <<wd_vars, twin_vars, ready_vars, client_vars, fetch_vars,
                   single_vars>>

\* delayed_restart: after asyncio.sleep(0.5),
\* os.kill(os.getpid(), signal.SIGTERM)
DelayedRestart ==
    /\ restart_pc = "scheduled"
    /\ restart_pc' = "done"
    /\ api_log' = Append(api_log, "SIGTERM")
    /\ sigterms' = sigterms + 1
    /\ call_end' = NoEnd
    /\ UNCHANGED <<svc_pc, access_lock, plc_client, executor_shutdown,
                   task_queue, svc_failures, svc_log, svc_trailing,
                   shutdown_pc, shutdown_ret, use_plc, ready_response>>
    /\ UNCHANGED <<allow_frontend_restart, restart_response>>
    /\ UNCHANGED <<wd_vars, twin_vars, ready_vars, client_vars, fetch_vars,
                   single_vars>>

\* reset_failure_count called by thread t: "self._consecutive_failures = 0",
\* the access lock is not looked at
ResetFailureCount(t) ==
    /\ svc_pc[t] = "idle"
    /\ svc_trailing <= MaxResetTrailing
    /\ svc_failures' = 0
    /\ call_end' = [caller |-> t, outcome |-> "reset"]
    /\ UNCHANGED <<svc_pc, access_lock, plc_client, executor_shutdown,
                   task_queue, sigterms, svc_log, svc_trailing,
                   shutdown_pc, shutdown_ret, use_plc, ready_response>>
    /\ UNCHANGED <<wd_vars, twin_vars, ready_vars, client_vars, aux_vars>>

\* get_status called by thread t (GET /api/status): the counter is read
\* into the answer, the access lock is not looked at
GetStatus(t) ==
    /\ svc_pc[t] = "idle"
    /\ call_end' = [caller |-> t, outcome |-> "status"]
    /\ UNCHANGED <<svc_pc, access_lock, plc_client, executor_shutdown,
                   task_queue, svc_failures, sigterms, svc_log,
                   svc_trailing, shutdown_pc, shutdown_ret, use_plc,
                   ready_response>>
    /\ UNCHANGED <<wd_vars, twin_vars, ready_vars, client_vars, aux_vars>>

ApiNext ==
    \/ \E t \in Callers : GetProductionData(t)
    \/ \E t \in Callers : TimestampCheck(t)
    \/ \E t \in Callers : TimestampDispatch(t)
    \/ \E i \in 1..MaxTasks, read \in ReadOutcomes : TaskCompletes(i, read)
    \/ \E t \in Callers : FetchTimeout(t)
    \/ \E t \in Callers : FutureCancelled(t)
    \/ RestartServer
    \/ DelayedRestart
    \/ \E t \in Callers : ResetFailureCount(t)
    \/ \E t \in Callers : GetStatus(t)

\* the API process with ALLOW_FRONTEND_RESTART on or off
ApiInit ==
    /\ ServiceStart
    /\ snapshot = NoSnapshot
    /\ ts_result = NoTimestamp
    /\ SingletonDefaults
    /\ allow_frontend_restart \in BOOLEAN
    /\ restart_response = NoRestartResponse
    /\ restart_pc = "idle"
    /\ api_log = <<>>

ApiSpec == ApiInit /\ [][ApiNext]_vars

TypeOK ==
    /\ pc \in {"init_spawn", "init_wait", "while", "sleeping", "check",
               "decide", "rs_stop", "rs_spawn", "rs_wait", "done"}
    /\ running \in BOOLEAN
    /\ consecutive_failures \in 0..MaxFailures
    /\ restart_count \in Nat
    /\ elapsed_since_restart \in {None} \cup (0..MaxElapsed)
    /\ api_process \in {"none", "live", "exited"}
    /\ orphans \in 0..MaxOrphans
    /\ http_client \in {"none", "open"}
    /\ startup_grace \in StartupGraceValues
    /\ bringup \in {"pending", "ok", "failed"}
    /\ exit_status \in {None, 0, 1}

\* ==================================================================
\* Properties
\* ==================================================================
FailedOutcomes == ProbeOutcomes \ {"ok"}

RestartPositions == {"rs_stop", "rs_spawn", "rs_wait"}

\* a staged restart is executed in this step
RestartExecuted == restart_count' = restart_count + 1

\* _attempt_restart runs in this step
DecisionStep == pc = "decide" /\ pc' # "decide"

\* cooldown schedule as the specification states it
ExpectedStage(k, c0) ==
    IF k = 0 THEN c0 ELSE IF k = 1 THEN 300 ELSE IF k = 2 THEN 900 ELSE 1800

ExpectedCooldown(k, c0, bm) ==
    IF ExpectedStage(k, c0) <= bm THEN ExpectedStage(k, c0) ELSE bm

InitialCooldownValues == {30, 60, 300}

BackoffMaxValues == {300, 1000, 1800, 7200}

\* C1: after any sequence of /health probes, consecutive_failures equals
\* the number of failed probes since the most recent successful probe, and
\* it is 0 right after a successful probe.
C1_FailuresEqualTrailingRun ==
    /\ consecutive_failures = trailing_failures
    /\ (probe_outcome = "ok" => consecutive_failures = 0)

\* C2: restart_count changes only by +1 when _attempt_restart executes a
\* restart, and to 0 only by a successful probe; failed probes of every
\* kind and skipped decisions leave it unchanged.
C2_RestartCountChanges ==
    [][restart_count' # restart_count =>
          \/ /\ DecisionStep
             /\ pc' = "rs_stop"
             /\ restart_count' = restart_count + 1
          \/ /\ pc = "check"
             /\ probe_outcome' = "ok"
             /\ restart_count' = 0]_vars

\* C3: the restart decision is invoked, and a restart executed, only when
\* a probe has just failed and consecutive_failures >= the failure limit;
\* a run of successful probes only keeps both counters at 0 and never
\* restarts.
C3_RestartOnlyAtLimit ==
    /\ [](pc = "decide" =>
            /\ probe_outcome \in FailedOutcomes
            /\ consecutive_failures >= FailureLimit)
    /\ [][RestartExecuted =>
            /\ pc = "decide"
            /\ probe_outcome \in FailedOutcomes
            /\ consecutive_failures >= FailureLimit]_vars
    /\ [](~failed_ever =>
            /\ consecutive_failures = 0
            /\ restart_count = 0
            /\ elapsed_since_restart = None
            /\ pc \notin RestartPositions \cup {"decide"})

\* a restart has been decided with the failure counter at the limit
C3_Witness ==
    /\ pc = "rs_stop"
    /\ consecutive_failures = FailureLimit

\* C4: no restart is executed less than the startup grace after the
\* previous one, and a decision skipped for the grace period changes
\* neither the counters nor the time of the last restart nor the child.
C4_GraceWindow ==
    [][/\ (RestartExecuted /\ elapsed_since_restart # None =>
              elapsed_since_restart >= startup_grace)
       /\ (DecisionStep /\ elapsed_since_restart # None
              /\ elapsed_since_restart < startup_grace =>
              /\ pc' = "while"
              /\ UNCHANGED <<consecutive_failures, restart_count,
                             elapsed_since_restart, api_process, orphans,
                             running>>)]_vars

\* a decision was skipped for the grace period although the cooldown had
\* elapsed
C4_Witness ==
    /\ last_decision = "grace"
    /\ elapsed_since_restart >= GetCurrentCooldown

\* C5: two consecutive restarts are at least
\* min(stages[min(k, 3)], BACKOFF_MAX) apart, k being restart_count at the
\* later decision; a decision skipped for the cooldown stops and starts
\* nothing and keeps the counters; the first restart is not delayed.
C5_StagedBackoff ==
    [][/\ (RestartExecuted /\ elapsed_since_restart # None =>
              elapsed_since_restart >=
                  ExpectedCooldown(restart_count, InitialCooldown, BackoffMax))
       /\ (DecisionStep /\ last_decision' = "cooldown" =>
              /\ pc' = "while"
              /\ UNCHANGED <<consecutive_failures, restart_count,
                             elapsed_since_restart, api_process, orphans,
                             running>>)
       /\ (DecisionStep /\ elapsed_since_restart = None =>
              RestartExecuted /\ pc' = "rs_stop")]_vars

\* a second restart in a row has just been executed
C5_Witness ==
    /\ last_decision = "restart"
    /\ restart_count >= 2
    /\ pc = "rs_stop"

\* C6: _get_current_cooldown returns min(stages[min(restart_count, 3)],
\* BACKOFF_MAX): C0, 300, 900, 1800, 1800 for restart_count 0..4 with
\* BACKOFF_MAX = 1800, and never more than BACKOFF_MAX.
C6_CooldownSchedule ==
    /\ restart_count <= 4 =>
          GetCurrentCooldown =
              <<InitialCooldown, 300, 900, 1800, 1800>>[restart_count + 1]
    /\ restart_count >= 4 => GetCurrentCooldown = 1800
    /\ \A c0 \in InitialCooldownValues, bm \in BackoffMaxValues :
          /\ CooldownFor(restart_count, c0, bm) =
                 ExpectedCooldown(restart_count, c0, bm)
          /\ CooldownFor(restart_count, c0, bm) <= bm

\* the schedule has saturated
C6_Witness == restart_count >= 4

\* C7: executing a staged restart leaves consecutive_failures as it was on
\* entry to _attempt_restart, whether or not the new child comes up.
C7_RestartKeepsFailures ==
    [][(pc \in (RestartPositions \cup {"decide"})) =>
          (consecutive_failures' = consecutive_failures)]_vars

\* C8: at most one spawned API child is alive in every state.
C8_AtMostOneChild == LiveChildren <= 1

\* C9: an exception raised by a probe is caught in _check_health, the
\* loop keeps running and consecutive_failures is exactly 1 greater than
\* before the probe.
C9_ProbeExceptionCounted ==
    [][pc = "check"
          /\ probe_outcome' \in {"request_error", "exception", "bad_json"} =>
          /\ consecutive_failures' = consecutive_failures + 1
          /\ pc' \in {"while", "decide"}
          /\ running' = running]_vars

\* C10: after SIGTERM or SIGINT the supervisor has running = false, begins
\* no further probe cycle, spawns no further child, and terminates with no
\* API child alive.
C10_SignalShutsDown ==
    /\ [](signalled => ~running)
    /\ [](signalled /\ pc = "done" => LiveChildren = 0)
    /\ [][signalled =>
            /\ ~(api_process # "live" /\ api_process' = "live")
            /\ ~(pc # "check" /\ pc' = "check")]_vars

\* C11: _stop_api_server on a live child sends SIGTERM to the process
\* group first; SIGKILL is sent only after SIGTERM in the same call and an
\* expired 5 s wait; a child that has already exited is sent no signal;
\* on every path the child handle is cleared when the call returns.
C11_StopSignalOrder ==
    stop_call # NoCall =>
        /\ api_process = "none"
        /\ (stop_call.signals # <<>> => stop_call.signals[1] = "SIGTERM")
        /\ (stop_call.outcome \in {"graceful", "killed"} =>
               stop_call.signals # <<>>)
        /\ (\E i \in 1..Len(stop_call.signals) :
                  stop_call.signals[i] = "SIGKILL") =>
               /\ stop_call.signals = <<"SIGTERM", "SIGKILL">>
               /\ stop_call.outcome = "killed"
        /\ (stop_call.handle # "live" => stop_call.signals = <<>>)

\* a stuck live child has just been killed
C11_Witness ==
    /\ stop_call.handle = "live"
    /\ stop_call.outcome = "killed"
    /\ api_process = "none"

\* the grace period and the cooldown of the current stage have elapsed
RestartDue ==
    \/ elapsed_since_restart = None
    \/ /\ elapsed_since_restart >= startup_grace
       /\ elapsed_since_restart >=
              ExpectedCooldown(restart_count, InitialCooldown, BackoffMax)

\* the model cannot extend the run of failed probes or the time since the
\* last restart any further
BoundReached ==
    \/ trailing_failures >= MaxFailures
    \/ /\ elapsed_since_restart # None
       /\ \A d \in SleepDurations : elapsed_since_restart + d > MaxElapsed

C14_WallClockImmunity ==
    \A r1, r2 \in Runs : runs[r1] = runs[r2]

\* both runs have restarted twice while their wall clocks are two hours
\* or more apart
C14_Witness ==
    /\ runs[1].restart_count >= 2
    /\ runs[1].last_decision = "restart"
    /\ wall_skew[1] - wall_skew[2] >= 7200

\* _check_ready_if_due runs in this step
ReadyCheckStep == pc = "ready" /\ pc' # "ready"

ExecutingCalls == Cardinality(RunningTasks(task_queue))

\* callers inside the section guarded by the access lock
InsideLock == {t \in Callers : svc_pc[t] = "waiting"}

C18_ServiceFailureCount ==
    /\ [][/\ (call_end'.outcome = "result" => svc_failures' = 0)
          /\ (call_end'.outcome \in {"PLCCommunicationTimeoutError", "error"}
                 => svc_failures' = svc_failures + 1)
          /\ (call_end'.outcome \notin
                  {"result", "PLCCommunicationTimeoutError", "error"}
                 => svc_failures' = svc_failures)]_vars
    /\ [](svc_failures = svc_trailing)

\* two calls in a row have timed out
C18_Witness ==
    /\ call_end.outcome = "PLCCommunicationTimeoutError"
    /\ svc_failures = 2

\* C19: a call not completed within PLC_FETCH_TIMEOUT is reported to its
\* caller as PLCCommunicationTimeoutError and counts as exactly one
\* failure; when the abandoned call completes later, no caller receives
\* anything and consecutive_failures does not change.
C19_TimeoutThenLateCompletion ==
    [][/\ (\E t \in Callers :
               /\ svc_pc[t] = "waiting" /\ svc_pc'[t] = "idle"
               /\ AwaitedBy(task_queue, t)
               /\ \E i \in DOMAIN task_queue' : task_queue'[i].caller = t)
            => /\ call_end'.outcome = "PLCCommunicationTimeoutError"
               /\ svc_failures' = svc_failures + 1
       /\ (call_end'.outcome = "PLCCommunicationTimeoutError"
              => svc_failures' = svc_failures + 1)
       /\ (call_end'.outcome = "late"
              => /\ call_end'.caller = 0
                 /\ UNCHANGED <<svc_failures, svc_pc, access_lock,
                                svc_trailing, sigterms>>)]_vars

\* an abandoned call has completed while the failure counter was not 0
C19_Witness ==
    /\ call_end.outcome = "late"
    /\ svc_failures > 0

\* C20: when consecutive_failures reaches PLC_FETCH_FAILURE_LIMIT the
\* service attempts a disconnect and then sends SIGTERM to its own
\* process; below the limit it sends none; over a run it sends SIGTERM
\* exactly once, however many calls fail after the limit was reached.
C20_TerminateOnce ==
    /\ (sigterms > 0 <=> svc_failures >= PlcFetchFailureLimit)
    /\ \A i \in DOMAIN svc_log :
          svc_log[i] = "SIGTERM" =>
              i > 1 /\ svc_log[i - 1] = "disconnect_attempt"
    /\ sigterms <= 1

\* C21: a transport error on a typed read that is still unresolved after the
\* auto-reconnect path during get_production_data reaches PLCService and is
\* counted: the call whose read ended with the I/O error adds 1 to
\* consecutive_failures.
C21_TransportErrorCounted ==
    [][\A i \in 1..MaxTasks :
          (/\ i \in RunningTasks(task_queue)
           /\ task_queue[i].awaited
           /\ TaskCompletes(i, "io_error"))
          => svc_failures' = svc_failures + 1]_vars

\* C22: shutdown() always returns: it waits at most 5 s for the access lock,
\* the client reference is None when it returns whether or not the lock was
\* acquired, also when the calling thread holds the lock itself, and the
\* lock is released only if shutdown() acquired it.
C22_ShutdownReturns ==
    /\ (shutdown_pc = "locking" => ENABLED ShutdownClient)
    /\ (shutdown_ret.by # None =>
           /\ shutdown_ret.client = "none"
           /\ plc_client = "none"
           /\ shutdown_ret.waited <= ShutdownLockTimeout
           /\ (shutdown_ret.by \in Callers => ~shutdown_ret.acquired)
           /\ (~shutdown_ret.acquired =>
                  /\ shutdown_ret.lock_after # 0
                  /\ shutdown_ret.waited = ShutdownLockTimeout)
           /\ (shutdown_ret.acquired => shutdown_ret.lock_after = 0))

\* shutdown() was called by the thread that holds the access lock, while
\* the client was still there
C22_Witness ==
    /\ shutdown_ret.by \in Callers
    /\ ~shutdown_ret.acquired
    /\ shutdown_ret.lock_after = shutdown_ret.by
    /\ sigterms = 1

\* C23: with USE_PLC off no client is created, get_production_data returns
\* a generated snapshot and get_plc_timestamp returns None, nothing is
\* submitted to the executor, consecutive_failures stays as it is, and no
\* call reaches the transport.
C23_DisabledMode ==
    ~use_plc =>
        /\ plc_client = "none"
        /\ task_queue = <<>>
        /\ svc_failures = 0
        /\ sigterms = 0
        /\ \A t \in Callers : svc_pc[t] = "idle"
        /\ call_end.outcome \in {"none", "dummy", "none_returned"}

\* get_production_data has returned a generated snapshot with USE_PLC off
C23_Witness ==
    /\ ~use_plc
    /\ call_end.outcome = "dummy"

\* C24: while the single worker of the PLC service is blocked, GET /ready
\* reports thread_pool_ok = false and status unhealthy.
C24_StuckWorkerUnhealthy ==
    ready_response.worker_stuck =>
        /\ ready_response.thread_pool_ok = FALSE
        /\ ready_response.status = "unhealthy"

\* C25: for every combination of thread_pool_ok, plc_service_ready and
\* plc_alive, /ready answers ok iff all three are true, degraded iff the
\* first two are true and plc_alive is false, unhealthy otherwise, and the
\* flags of the response are the values the status was computed from.
C25_ReadinessClassification ==
    ready_response # NoResponse =>
        LET r == ready_response
        IN  /\ r.status \in {"ok", "degraded", "unhealthy"}
            /\ (r.status = "ok" <=>
                   r.thread_pool_ok /\ r.plc_service_ready /\ r.plc_alive)
            /\ (r.status = "degraded" <=>
                   r.thread_pool_ok /\ r.plc_service_ready /\ ~r.plc_alive)
            /\ (r.status = "unhealthy" <=>
                   ~(r.thread_pool_ok /\ r.plc_service_ready))

\* /ready has answered unhealthy although the PLC answered the ping
C25_Witness ==
    /\ ready_response.status = "unhealthy"
    /\ ~ready_response.thread_pool_ok
    /\ ready_response.plc_service_ready
    /\ ready_response.plc_alive

\* C26: with AUTO_RECONNECT on, a typed read that fails with an I/O error
\* calls reconnect() once and, if that succeeds, calls the read exactly once
\* more; per wrapped call the read runs at most twice and reconnect() at
\* most once, and a second failure is surfaced without another retry.  With
\* AUTO_RECONNECT off the error is surfaced with no reconnect and no retry.
C26_RetryOnce ==
    /\ [](cl_op.op = "read" =>
            /\ cl_op.reads <= 2
            /\ cl_op.reconnects <= 1
            /\ (cl_op.reads = 2 => cl_op.reconnects = 1 /\ auto_reconnect)
            /\ (cl_op.reconnects = 1 => auto_reconnect /\ cl_op.reads >= 1)
            /\ (~auto_reconnect =>
                   cl_op.reads <= 1 /\ cl_op.reconnects = 0
                   /\ cl_op.attempts = 0 /\ cl_pc = "idle")
            /\ (cl_pc = "retry_read" =>
                   cl_op.reads = 1 /\ cl_op.reconnects = 1 /\ connected))
    /\ [][/\ (cl_pc = "retry_read" =>
                 /\ cl_pc' = "idle"
                 /\ cl_op'.reads = 2
                 /\ cl_op'.reconnects = 1
                 /\ cl_op'.ret \in ReadOutcomes)
          /\ (cl_pc = "idle" /\ cl_op'.op = "read" /\ cl_pc' = "reconnecting"
                 => auto_reconnect /\ cl_op'.last = "io_error")]_vars

\* the read retried after a successful reconnect has failed again
C26_Witness ==
    /\ cl_op.op = "read"
    /\ cl_pc = "idle"
    /\ cl_op.reads = 2
    /\ cl_op.ret = "io_error"

\* C27: with RECONNECT_RESTART on, a typed read that finally fails after the
\* auto-reconnect path, because reconnect() was exhausted or because the
\* retried read failed again, requests a restart before the error is
\* surfaced; with RECONNECT_RESTART off no restart is ever requested.
C27_RestartOnFinalFailure ==
    /\ (~reconnect_restart => cl_op.restarts = 0)
    /\ (/\ reconnect_restart
        /\ cl_op.op = "read"
        /\ cl_pc = "idle"
        /\ cl_op.reconnects = 1
        /\ cl_op.ret \in {"io_error", "other_error"}
        /\ \/ cl_op.reads = 2
           \/ cl_op.reads = 1 /\ cl_op.last \in {"refused", "io_error"}
              /\ cl_op.attempts = reconnect_retry
        => cl_op.restarts = 1)

\* C28: reconnect() ends after at most RECONNECT_RETRY connection attempts,
\* each preceded by a disconnect; it returns true iff an attempt succeeded,
\* and on return the connected flag equals the returned value.
C28_ReconnectBounded ==
    /\ [](cl_op.reconnects = 1 =>
            /\ cl_op.attempts <= reconnect_retry
            /\ cl_op.attempts <= cl_op.disconnects
            /\ cl_op.disconnects <= reconnect_retry
            /\ cl_op.i <= reconnect_retry)
    /\ [](cl_op.op = "reconnect" /\ cl_pc = "idle" =>
            /\ (cl_op.ret = "true" <=>
                   cl_op.attempts > 0 /\ cl_op.last = "ok")
            /\ (cl_op.ret = "true" => connected)
            /\ (cl_op.ret = "false" => ~connected)
            /\ (cl_op.ret = "false" =>
                   cl_op.attempts = reconnect_retry
                   /\ cl_op.disconnects = reconnect_retry))
    /\ [][cl_pc = "reconnecting" /\ cl_pc' = "reconnecting" =>
             /\ cl_op'.i = cl_op.i + 1
             /\ cl_op'.disconnects = cl_op.disconnects + 1
             /\ cl_op'.attempts = cl_op.attempts + 1]_vars

\* reconnect(), called while connected, has used up all its attempts
C28_Witness ==
    /\ cl_op.op = "reconnect"
    /\ cl_pc = "idle"
    /\ cl_op.before
    /\ cl_op.ret = "false"
    /\ cl_op.attempts = MaxRetry

\* C29: connect() retries only after a connection-refused error and makes
\* at most RECONNECT_RETRY attempts; any other connection error ends it at
\* that attempt; it returns true iff an attempt succeeded, and on return
\* the connected flag equals the returned value.
C29_ConnectRetriesOnlyRefused ==
    /\ [](cl_op.op = "connect" =>
            /\ cl_op.attempts <= reconnect_retry
            /\ (cl_pc = "connecting" /\ cl_op.attempts > 0
                   => cl_op.last = "refused")
            /\ (cl_pc = "idle" =>
                   /\ (cl_op.ret = "true" <=>
                          cl_op.attempts > 0 /\ cl_op.last = "ok")
                   /\ (cl_op.ret = "true" => connected)
                   /\ (cl_op.ret = "false" => ~connected)))
    /\ [][cl_pc = "connecting" /\ cl_op'.last = "io_error" =>
             /\ cl_pc' = "idle"
             /\ cl_op'.ret = "false"
             /\ ~connected']_vars

\* connect() has returned False at its second attempt, which failed with
\* an error other than connection refused, with attempts to spare
C29_Witness ==
    /\ cl_op.op = "connect"
    /\ cl_pc = "idle"
    /\ cl_op.attempts = 2
    /\ cl_op.attempts < reconnect_retry
    /\ cl_op.last = "io_error"
    /\ cl_op.ret = "false"

\* C30: disconnect() always leaves connected = false, whether close()
\* succeeds, fails with a connection or OS error (returning false) or
\* raises another error, and calling it on a disconnected client changes
\* nothing.
C30_DisconnectClearsFlag ==
    /\ [](cl_op.op = "disconnect" =>
            /\ ~connected
            /\ (cl_op.last = "ok" <=> cl_op.ret = "true")
            /\ (cl_op.last = "os_error" <=> cl_op.ret = "false"))
    /\ [][cl_op'.op = "disconnect" /\ cl_pc = "idle" /\ ~connected =>
             UNCHANGED <<connected, cl_pc, reconnect_retry, auto_reconnect,
                         reconnect_restart, debug_dummy_read>>]_vars

\* disconnect() was called on a connected client and close() raised an
\* error that disconnect() does not catch
C30_Witness ==
    /\ cl_op.op = "disconnect"
    /\ cl_op.before
    /\ cl_op.ret = "raised"

\* C37: the PLC client is never used by two threads at once: shutdown()
\* calls disconnect on the client only when no call dispatched to the
\* executor is still executing and only when it has acquired the access
\* lock.
C37_OneCallerOnSocket ==
    [][shutdown_ret' # shutdown_ret /\ plc_client = "connected" =>
          /\ RunningTasks(task_queue) = {}
          /\ shutdown_ret'.acquired]_vars

\* C39: with USE_PLC on, get_production_data never returns generated dummy
\* data, whatever the state of the client reference.
C39_NoDummyWithPlc ==
    use_plc => call_end.outcome # "dummy"

\* C40: for every allowed RECONNECT_RETRY, connect() and reconnect() make
\* at least one connection attempt before they return false.
C40_AtLeastOneAttempt ==
    /\ cl_op.op \in {"connect", "reconnect"}
    /\ cl_pc = "idle"
    /\ cl_op.ret = "false"
    => cl_op.attempts >= 1

\* C32: when plan and actual are read as non-negative counts,
\* fetch_production_data does not fail because of their relation: no
\* ValidationError leaves it, also when actual is greater than plan
C32_OverProductionReturns ==
    snapshot.kind = "raised" => snapshot.exc # "ValidationError"

\* C33: the counts fetch_production_data puts into a snapshot, normal or
\* synthesized, are never negative: a negative raw double word becomes 0
\* and a failed read counts as 0
C33_CountsNonNegative ==
    snapshot.kind # "none" =>
        /\ snapshot.plan >= 0
        /\ snapshot.actual >= 0
        /\ snapshot.raw_plan < 0 => snapshot.plan = 0
        /\ snapshot.raw_actual < 0 => snapshot.actual = 0

C33_Witness ==
    /\ snapshot.kind = "normal"
    /\ snapshot.raw_plan < 0
    /\ snapshot.plan = 0
    /\ snapshot.raw_actual > 0
    /\ snapshot.actual = snapshot.raw_actual

\* C34: a production type read outside 0..15 never comes back as an
\* ordinary snapshot: the snapshot returned for it is the synthesized one
C34_OutOfRangeIsError ==
    /\ snapshot.kind \in {"normal", "error"} =>
          snapshot.production_type \in 0..15
    /\ snapshot.kind = "normal" => snapshot.raw_type \in 0..15

\* C35: fetch_production_timestamp never raises: with an empty
\* head_device it answers with the system time and reads nothing
C35_TimestampNeverRaises ==
    /\ ts_result.kind # "raised"
    /\ ts_result.head_empty =>
          ts_result.kind = "system_time" /\ ts_result.reads = 0

\* C31: at most one PLCClient is ever constructed in a process, and every
\* call of get_instance returns the same object
C31_OneInstance ==
    /\ inst_created <= 1
    /\ \A t, u \in Threads :
          inst_returned[t] # 0 /\ inst_returned[u] # 0 =>
              inst_returned[t] = inst_returned[u]

\* C36: POST /api/restart is answered with 403 and changes nothing of the
\* PLC service while ALLOW_FRONTEND_RESTART is false; while it is true the
\* handler shuts the PLC service down, schedules the SIGTERM after that and
\* answers 200 "restarting", and the SIGTERM is sent only when the client
\* has been disconnected and released
C36_RestartGate ==
    /\ [](~allow_frontend_restart => api_log = <<>>)
    /\ [](\A i \in DOMAIN api_log :
             api_log[i] \in {"create_task", "SIGTERM"} =>
                 /\ \E j \in 1..(i - 1) : api_log[j] = "shutdown"
                 /\ plc_client = "none"
                 /\ executor_shutdown)
    /\ [][restart_response' # restart_response =>
             IF ~allow_frontend_restart
             THEN /\ restart_response'.code = 403
                  /\ UNCHANGED <<svc_vars, api_log>>
             ELSE /\ restart_response' =
                        [code |-> 200, status |-> "restarting"]
                  /\ api_log' = <<"shutdown", "create_task">>
                  /\ shutdown_ret'.by = 0
                  /\ plc_client' = "none"]_vars

C36_Witness ==
    /\ allow_frontend_restart
    /\ use_plc
    /\ restart_response.code = 200
    /\ api_log = <<"shutdown", "create_task", "SIGTERM">>
    /\ shutdown_ret.client = "none"
    /\ "disconnect_attempt" \in {svc_log[i] : i \in DOMAIN svc_log}

\* C38: the failure counter of the PLC service changes, and is read for a
\* status answer, only in a step of the thread that holds the access lock
C38_CounterUnderLock ==
    [][(svc_failures' # svc_failures \/ call_end'.outcome = "status") =>
          access_lock \in {0, call_end'.caller}]_vars

\* C13: when the initial bring-up fails the supervisor does not go on to
\* monitor and exits with status 1, and so does the launcher when the API
\* does not become ready; a clean shutdown exits with status 0.
C13_BringUpFailureExitsOne ==
    /\ (bringup = "failed" => pc = "done")
    /\ (pc = "done" =>
           exit_status = (IF bringup = "failed" THEN 1 ELSE 0))
    /\ (bringup = "failed" => LauncherExitStatus(FALSE) = 1)
    /\ (bringup = "ok" => LauncherExitStatus(TRUE) = 0)

====
